---- MODULE Spec2Model ----
(***************************************************************************)
(* bdblib: a C++ layer over the Berkeley DB engine (tables, secondary      *)
(* indexes, foreign keys, nested transactions).                            *)
(*                                                                         *)
(* The schema is the one of src/src/test/src/test.cc: a master table       *)
(* "season" and a table "month" with a non-unique index "season" (the      *)
(* foreign key to table "season") and a unique index "ordnum".             *)
(*                                                                         *)
(* The wrapper (table.cc, index.cc, database.cc) is translated from its    *)
(* code.  The storage engine it calls (DB->put, DB->del, DB_TXN->abort,    *)
(* ...) is not part of the sources; the operators Db* and Txn* model it    *)
(* from the specification and the engine's documented return codes.        *)
(***************************************************************************)
EXTENDS Integers, Sequences, FiniteSets, TLC

VARIABLES
    store,      \* the engine's content: tables and indexes, as seen by the current transaction
    m_txns,     \* database::m_txns, the stack of active transactions (bottom = top-level)
    fmode,      \* foreign association of index "season" to table "season" in this session
    last,       \* the last call: its name, the code of the exception it threw (0 = none),
                \* the tables whose content it changed and the engine's return value
    begun,      \* history: begun[i] is the content of the store when transaction m_txns[i] began
    m_sequences,\* database::m_sequences, the names of the sequence objects of this session
    ids,        \* history: ids[n] lists the values that id() has returned for sequence n
    undone,     \* history: an abort has discarded a call of id()
    threads,    \* the threads inside begin_transaction, commit_transaction, rollback_transaction
    m_tables,   \* database::m_tables, the table objects of this session, each with its m_indexes
    recordsets, \* the recordset objects of the caller
    fetched,    \* history: fetched[r] lists what the calls of fetch on recordset r have returned
    fprev       \* history: the foreign-key mode that was in force when the previous session ended

vars == <<store, m_txns, fmode, last, begun, m_sequences, ids, undone, threads,
          m_tables, recordsets, fetched, fprev>>

----------------------------------------------------------------------------
(* Inputs *)

SeasonKeys == {"s1", "s2"}
MonthKeys  == {"m1", "m2"}
Ordnums    == {1, 2}
NoSeason   == "none"            \* month::data whose season field is unset
SeasonRec  == "sd"              \* the one value of season::data (no fields are used)
MonthData  == [season : SeasonKeys \cup {NoSeason}, ordnum : Ordnums]

SeqNames == {"month"}
Threads  == {"t1", "t2", "t3"}
TableNames == {"season", "month"}

\* The calls of a specification are drawn from these: the keys of table
\* "season", and the records <<key, data>> written to table "month".
AllInputs == [season |-> SeasonKeys, puts |-> MonthKeys \X MonthData]
TxnInputs == [season |-> {"s1"},
              puts   |-> {<<"m1", [season |-> "s1", ordnum |-> 1]>>,
                          <<"m1", [season |-> NoSeason, ordnum |-> 1]>>,
                          <<"m2", [season |-> "s1", ordnum |-> 2]>>}]
\* The calls of the sessions of several threads.
SharedInputs == [season |-> {"s1"},
                 puts   |-> {<<"m1", [season |-> "s1", ordnum |-> 1]>>}]
LifeInputs == [season |-> {"s1"},
               puts   |-> {<<"m1", [season |-> "s1", ordnum |-> 1]>>,
                           <<"m2", [season |-> NoSeason, ordnum |-> 1]>>}]
\* A table that the setup of test.cc does not create.
OtherTable == "keyser_soze"
\* The records of a session with recordsets: two months of one season, the
\* month with the least key in the other season, ordinal numbers against
\* the order of the keys.
RsInputs == [season |-> {},
             puts   |-> {<<"m1", [season |-> "s2", ordnum |-> 3]>>,
                         <<"m2", [season |-> "s1", ordnum |-> 1]>>,
                         <<"m3", [season |-> "s1", ordnum |-> 2]>>}]
PutsOf(in, tbl) == IF tbl = "season" THEN in.season \X {SeasonRec} ELSE in.puts
KeysOf(in, tbl) == {p[1] : p \in PutsOf(in, tbl)}

\* Nested transactions that may be open above the top-level one.
MaxNest == 2

\* The calls of fetch on a recordset since it was made or rewound.
MaxFetch == 4

\* The most calls of fetch on one recordset in a session with joins.
MaxJoinFetch == 2

\* Nested transactions open at a time in a session of several threads.
MaxShared == 1

\* The sequence objects of one session and the calls of id() per sequence.
MaxHandles == 2
MaxIds     == 4

----------------------------------------------------------------------------
(* Exception codes (bdb.h) and engine return codes *)

NoError               == 0
BDB_ERROR_UNKNOWN     == 1
BDB_ERROR_NOT_FOUND   == 2
BDB_ERROR_EXISTS      == 3
BDB_ERROR_FOREIGN_KEY == 4

DB_OK               == "0"
DB_NOTFOUND         == "DB_NOTFOUND"
DB_KEYEXIST         == "DB_KEYEXIST"
DB_FOREIGN_CONFLICT == "DB_FOREIGN_CONFLICT"
EINVAL              == "EINVAL"
DB_DONOTINDEX       == "DB_DONOTINDEX"
ENOENT              == "ENOENT"
EEXIST              == "EEXIST"
DB_SECONDARY_BAD    == "DB_SECONDARY_BAD"
DB_LOCK_DEADLOCK    == "DB_LOCK_DEADLOCK"
DB_RUNRECOVERY      == "DB_RUNRECOVERY"

----------------------------------------------------------------------------
(* User callbacks *)

\* Index callback of index "season": the season field of the data; no entry
\* for a record whose season is unset.
season_ix_index(key, data) ==
    IF data.season = NoSeason THEN DB_DONOTINDEX ELSE data.season

\* Index callback of the unique index "ordnum".
ordnum_ix_index(key, data) == data.ordnum

\* Nullify callback: clears the season field of records with ordnum 1 and
\* reports the change; leaves record "m1" with another ordnum alone
\* (changed = 0); cannot update any other record (non-zero return).
nullify_month(pkey, pdata, fkey) ==
    IF pdata.ordnum = 1
    THEN [ret |-> DB_OK, changed |-> TRUE,  pdata |-> [pdata EXCEPT !.season = NoSeason]]
    ELSE IF pkey = "m1"
    THEN [ret |-> DB_OK, changed |-> FALSE, pdata |-> pdata]
    ELSE [ret |-> EINVAL, changed |-> FALSE, pdata |-> pdata]

\* std::string::compare on the keys of the inputs.
StrOrd == [m1 |-> 1, m2 |-> 2, m3 |-> 3, s1 |-> 1, s2 |-> 2, s3 |-> 3]
compare(a, b) == StrOrd[a] - StrOrd[b]

\* The sort callbacks of the tables and of the indexes.
season_compare(key1, key2)    == compare(key1, key2)
month_compare(key1, key2)     == compare(key1, key2)
season_ix_compare(key1, key2) == compare(key1, key2)
ordnum_ix_compare(key1, key2) == key1 - key2

----------------------------------------------------------------------------
(* The storage engine *)

\* Index "season" is opened but never associated with its table.
associated_ordnum_only == {"ordnum"}

\* Index "ordnum" is opened but never associated with its table.
associated_season_only == {"season"}

\* The indexes index::index has associated with table "month".
associated == {"season", "ordnum"}

\* Files of a database home: the environment, the store of the sequences,
\* one file per table and one per index.
EnvFile  == "__db.001"
SeqFile  == "__seq.db"
TableFile(name) == name \o ".db"
IndexFile(name) == name \o ".ix"

\* The home after the setup of test.cc: the tables and the indexes exist,
\* are empty, and the indexes are associated with table "month". The field
\* assoc names the indexes that the open handles have associated.
EmptyStore ==
    [season |-> {}, month |-> {}, iseason |-> {}, iordnum |-> {}, seq |-> {},
     files |-> {EnvFile, SeqFile} \cup {TableFile(t) : t \in TableNames}
                                   \cup {IndexFile(i) : i \in associated},
     assoc |-> associated]

Has(t, k)    == \E e \in t : e[1] = k
Lookup(t, k) == (CHOOSE e \in t : e[1] = k)[2]
Table(st, tbl) == IF tbl = "season" THEN st.season ELSE st.month

\* Entries the two indexes of "month" derive from one primary record.
SeasonEntries(k, d) ==
    IF "season" \notin associated \/ season_ix_index(k, d) = DB_DONOTINDEX THEN {}
    ELSE {<<season_ix_index(k, d), k>>}
OrdnumEntries(k, d) ==
    IF "ordnum" \notin associated THEN {} ELSE {<<ordnum_ix_index(k, d), k>>}

\* The store with primary record <<k, d>> written to "month" and both
\* indexes brought up to date.
WriteMonth(st, k, d) ==
    [st EXCEPT !.month   = {e \in @ : e[1] # k} \cup {<<k, d>>},
               !.iseason = IF "season" \in st.assoc
                           THEN {e \in @ : e[2] # k} \cup SeasonEntries(k, d) ELSE @,
               !.iordnum = IF "ordnum" \in st.assoc
                           THEN {e \in @ : e[2] # k} \cup OrdnumEntries(k, d) ELSE @]

\* The store with primary record k deleted from "month", with its entries in
\* both indexes.
EraseMonth(st, k) ==
    [st EXCEPT !.month   = {e \in @ : e[1] # k},
               !.iseason = IF "season" \in st.assoc THEN {e \in @ : e[2] # k} ELSE @,
               !.iordnum = IF "ordnum" \in st.assoc THEN {e \in @ : e[2] # k} ELSE @]

\* DB->put on table "month".  The secondaries are visited most recently
\* associated first: the unique index "ordnum", then index "season" with its
\* foreign constraint.  A failed put leaves the store as it was.
DbPutMonth(st, fm, k, d, flags) ==
    LET have_old == Has(st.month, k)
        ord_same == have_old /\ ordnum_ix_index(k, Lookup(st.month, k)) = ordnum_ix_index(k, d)
        ord_dup  == /\ "ordnum" \in st.assoc
                    /\ ~ord_same
                    /\ \E e \in st.iordnum : e[1] = ordnum_ix_index(k, d) /\ e[2] # k
        foreign  == /\ "season" \in st.assoc
                    /\ fm # "none"
                    /\ season_ix_index(k, d) # DB_DONOTINDEX
                    /\ ~Has(st.season, season_ix_index(k, d))
    IN  IF flags = "DB_NOOVERWRITE" /\ have_old THEN [ret |-> DB_KEYEXIST, st |-> st]
        ELSE IF ord_dup THEN [ret |-> EINVAL, st |-> st]
        ELSE IF foreign THEN [ret |-> DB_FOREIGN_CONFLICT, st |-> st]
        ELSE [ret |-> DB_OK, st |-> WriteMonth(st, k, d)]

\* DB->put on table "season" (no secondaries).
DbPutSeason(st, k, d, flags) ==
    IF flags = "DB_NOOVERWRITE" /\ Has(st.season, k) THEN [ret |-> DB_KEYEXIST, st |-> st]
    ELSE [ret |-> DB_OK, st |-> [st EXCEPT !.season = {e \in @ : e[1] # k} \cup {<<k, d>>}]]

DbPut(st, fm, tbl, k, d, flags) ==
    IF tbl = "season" THEN DbPutSeason(st, k, d, flags) ELSE DbPutMonth(st, fm, k, d, flags)

\* DB_FOREIGN_NULLIFY: the callback is called for each primary record in refs
\* (the entries of index "season" with the deleted key); a record reported
\* changed is written back, which re-derives its index entries.
RECURSIVE NullifyAll(_, _, _, _)
NullifyAll(st, fm, refs, fkey) ==
    IF refs = {} THEN [ret |-> DB_OK, st |-> st]
    ELSE LET e  == CHOOSE x \in refs : TRUE
             cb == nullify_month(e[2], Lookup(st.month, e[2]), fkey)
             w  == IF cb.changed THEN DbPutMonth(st, fm, e[2], cb.pdata, "0")
                   ELSE [ret |-> DB_OK, st |-> st]
         IN  IF cb.ret # DB_OK THEN [ret |-> cb.ret, st |-> st]
             ELSE IF w.ret # DB_OK THEN [ret |-> w.ret, st |-> st]
             ELSE NullifyAll(w.st, fm, refs \ {e}, fkey)

\* DB_FOREIGN_CASCADE: every primary record in refs is deleted.
RECURSIVE CascadeAll(_, _)
CascadeAll(st, refs) ==
    IF refs = {} THEN st
    ELSE LET e == CHOOSE x \in refs : TRUE
         IN  CascadeAll(EraseMonth(st, e[2]), refs \ {e})

\* DB->del on the master table "season".
DbDelSeason(st, fm, k) ==
    LET refs == {e \in st.iseason : e[1] = k}
        gone(s) == [s EXCEPT !.season = {e \in @ : e[1] # k}]
    IN  IF ~Has(st.season, k) THEN [ret |-> DB_NOTFOUND, st |-> st]
        ELSE IF fm = "none" \/ refs = {} THEN [ret |-> DB_OK, st |-> gone(st)]
        ELSE IF fm = "abort" THEN [ret |-> DB_FOREIGN_CONFLICT, st |-> st]
        ELSE IF fm = "cascade" THEN [ret |-> DB_OK, st |-> gone(CascadeAll(st, refs))]
        ELSE LET n == NullifyAll(st, fm, refs, k)
             IN  IF n.ret # DB_OK THEN [ret |-> n.ret, st |-> st]
                 ELSE [ret |-> DB_OK, st |-> gone(n.st)]

\* DB->del on table "month".
DbDelMonth(st, k) ==
    IF ~Has(st.month, k) THEN [ret |-> DB_NOTFOUND, st |-> st]
    ELSE [ret |-> DB_OK, st |-> EraseMonth(st, k)]

DbDel(st, fm, tbl, k) ==
    IF tbl = "season" THEN DbDelSeason(st, fm, k) ELSE DbDelMonth(st, k)

\* DB->exists and DB->get.
DbExists(t, k) == IF Has(t, k) THEN DB_OK ELSE DB_NOTFOUND
DbGet(t, k) ==
    IF Has(t, k) THEN [ret |-> DB_OK, data |-> {Lookup(t, k)}]
    ELSE [ret |-> DB_NOTFOUND, data |-> {}]

\* Transactions of the engine: a handle keeps what its abort restores.
TxnBegin(st, parent) == [undo |-> st, parent |-> parent]
TxnAbort(st, txn)  == txn.undo
TxnCommit(st, txn) == st

\* What a call of the engine can return when the engine may fail for a
\* reason of its own: a probe or a put that loses a deadlock changes
\* nothing; a commit or an abort that fails leaves the writes of the
\* transaction undone or in place.
DbExistsResults(t, k) == {DbExists(t, k), DB_LOCK_DEADLOCK}
DbPutResults(st, fm, tbl, k, d, flags) ==
    {DbPut(st, fm, tbl, k, d, flags), [ret |-> DB_LOCK_DEADLOCK, st |-> st]}
TxnCommitResults(st, txn) ==
    {[ret |-> DB_OK, st |-> TxnCommit(st, txn)],
     [ret |-> DB_RUNRECOVERY, st |-> TxnAbort(st, txn)],
     [ret |-> DB_RUNRECOVERY, st |-> st]}
TxnAbortResults(st, txn) ==
    {[ret |-> DB_OK, st |-> TxnAbort(st, txn)],
     [ret |-> DB_RUNRECOVERY, st |-> TxnAbort(st, txn)],
     [ret |-> DB_RUNRECOVERY, st |-> st]}

\* Sequences of the engine, kept in the store "__seq": an entry <<n, v>>
\* says that the next get of sequence n returns v. A get inside a
\* transaction is a write of that transaction.
SeqHas(st, n)   == \E e \in st.seq : e[1] = n
SeqValue(st, n) == (CHOOSE e \in st.seq : e[1] = n)[2]

SeqOpen(st, n, create, initial_value) ==
    IF create
    THEN IF SeqHas(st, n)
         THEN [ret |-> EEXIST, st |-> st]
         ELSE [ret |-> DB_OK, st |-> [st EXCEPT !.seq = @ \cup {<<n, initial_value>>}]]
    ELSE IF SeqHas(st, n)
         THEN [ret |-> DB_OK, st |-> st]
         ELSE [ret |-> ENOENT, st |-> st]

SeqGet(st, n, delta) ==
    LET v == SeqValue(st, n)
    IN  [ret |-> DB_OK, id |-> v,
         st  |-> [st EXCEPT !.seq = (@ \ {<<n, v>>}) \cup {<<n, v + delta>>}]]

\* DB_ENV->open: the environment of a home is there, or is made with DB_CREATE.
DbEnvOpen(st, flags) ==
    IF EnvFile \in st.files THEN [ret |-> DB_OK, st |-> st]
    ELSE IF "DB_CREATE" \in flags THEN [ret |-> DB_OK, st |-> [st EXCEPT !.files = @ \cup {EnvFile}]]
    ELSE [ret |-> ENOENT, st |-> st]

\* DB->open of a file of the home.
DbOpen(st, file, flags) ==
    IF file \in st.files
    THEN IF {"DB_CREATE", "DB_EXCL"} \subseteq flags
         THEN [ret |-> EEXIST, st |-> st]
         ELSE [ret |-> DB_OK, st |-> st]
    ELSE IF "DB_CREATE" \in flags
         THEN [ret |-> DB_OK, st |-> [st EXCEPT !.files = @ \cup {file}]]
         ELSE [ret |-> ENOENT, st |-> st]

\* The content of a secondary of table "month", and the entries that the
\* callback of the secondary derives from a set of primary records.
Secondary(st, name) == IF name = "season" THEN st.iseason ELSE st.iordnum
Derived(name, recs) ==
    IF name = "season"
    THEN {<<season_ix_index(e[1], e[2]), e[1]>> :
             e \in {x \in recs : season_ix_index(x[1], x[2]) # DB_DONOTINDEX}}
    ELSE {<<ordnum_ix_index(e[1], e[2]), e[1]>> : e \in recs}

\* DB->associate of a secondary with table "month".  With DB_CREATE an empty
\* secondary is filled from the records of the table; the secondary "ordnum"
\* holds one entry per key, and filling it from records that share a key
\* fails.
DbAssociate(st, name, flags) ==
    LET fill == Derived(name, st.month)
        dup  == name = "ordnum" /\ \E a \in fill : \E b \in fill : a[1] = b[1] /\ a[2] # b[2]
    IN  IF "DB_CREATE" \in flags /\ Secondary(st, name) = {}
        THEN IF dup THEN [ret |-> EINVAL, st |-> st]
             ELSE [ret |-> DB_OK,
                   st  |-> [st EXCEPT !.iseason = IF name = "season" THEN fill ELSE @,
                                      !.iordnum = IF name = "ordnum" THEN fill ELSE @,
                                      !.assoc   = @ \cup {name}]]
        ELSE [ret |-> DB_OK, st |-> [st EXCEPT !.assoc = @ \cup {name}]]

\* Cursors of the engine.  A cursor is on a file of the home and stands on
\* an entry of it, or on none before its first get; a get that finds nothing
\* leaves the cursor where it was.  The entries of a table are its records
\* <<key, data>>, those of a secondary are pairs <<key, primary key>>.
IsSecondary(db) == db \in {IndexFile(i) : i \in associated}

Content(st, db) ==
    CASE db = TableFile("season") -> st.season
      [] db = TableFile("month")  -> st.month
      [] db = IndexFile("season") -> st.iseason
      [] db = IndexFile("ordnum") -> st.iordnum
      [] OTHER -> {}

\* The comparator set with set_bt_compare on a file, and the comparator
\* set with set_dup_compare on the secondaries with duplicates.
bt_compare(db, a, b) ==
    CASE db = TableFile("season") -> season_compare(a, b)
      [] db = TableFile("month")  -> month_compare(a, b)
      [] db = IndexFile("season") -> season_ix_compare(a, b)
      [] db = IndexFile("ordnum") -> ordnum_ix_compare(a, b)

\* A duplicate comparator that sorts the primary keys backwards.
dup_compare_reversed(a, b) == month_compare(b, a)

dup_compare(a, b) == month_compare(a, b)

\* Entry a comes before entry b in the file.
Before(db, a, b) ==
    \/ bt_compare(db, a[1], b[1]) < 0
    \/ /\ IsSecondary(db)
       /\ bt_compare(db, a[1], b[1]) = 0
       /\ dup_compare(a[2], b[2]) < 0

Least(db, S) == CHOOSE a \in S : \A b \in S \ {a} : Before(db, a, b)

NoCursor == [db |-> "", pos |-> <<>>, curslist |-> <<>>]

\* DB->cursor.
DbCursor(db) == [db |-> db, pos |-> <<>>, curslist |-> <<>>]

\* DBC->get and DBC->pget: the entry found, with the cursor on it; for a
\* secondary the record is the one of the primary key of the entry.
DbcGet(st, c, key, flag) ==
    LET all  == Content(st, c.db)
        cand == CASE flag = "DB_FIRST" -> all
                  [] flag = "DB_NEXT" ->
                        IF c.pos = <<>> THEN all ELSE {e \in all : Before(c.db, c.pos[1], e)}
                  [] flag = "DB_SET" -> {e \in all : bt_compare(c.db, e[1], key[1]) = 0}
                  [] flag = "DB_NEXT_DUP" ->
                        {e \in all : /\ bt_compare(c.db, e[1], c.pos[1][1]) = 0
                                     /\ Before(c.db, c.pos[1], e)}
    IN  IF flag = "DB_NEXT_DUP" /\ c.pos = <<>>
        THEN [ret |-> EINVAL, c |-> c, rec |-> <<>>]
        ELSE IF cand = {} THEN [ret |-> DB_NOTFOUND, c |-> c, rec |-> <<>>]
        ELSE LET e == Least(c.db, cand)
             IN  [ret |-> DB_OK, c |-> [c EXCEPT !.pos = <<e>>],
                  rec |-> IF IsSecondary(c.db) THEN <<e[2], Lookup(st.month, e[2])>> ELSE e]

\* DB->join: a cursor over the records of the primary whose key is among the
\* entries of every cursor of the list with the key that cursor stands on.
\* It fails for an empty list; it does not look at what the cursors are on.
DbJoin(primary, curslist) ==
    IF curslist = <<>> THEN [ret |-> EINVAL, c |-> NoCursor]
    ELSE [ret |-> DB_OK, c |-> [db |-> primary, pos |-> <<>>, curslist |-> curslist]]

\* The primary keys that a cursor of a join list selects.
Selected(st, c) ==
    {e[2] : e \in {x \in Content(st, c.db) : bt_compare(c.db, x[1], c.pos[1][1]) = 0}}

\* DBC->get on a join cursor: the matches come in the order of the
\* duplicates; a match that the primary does not hold is an error.
DbcJoinGet(st, c) ==
    LET n       == Len(c.curslist)
        matches == {p \in Selected(st, c.curslist[1]) :
                        \A i \in 2..n : p \in Selected(st, c.curslist[i])}
        cand    == IF c.pos = <<>> THEN matches
                   ELSE {p \in matches : dup_compare(c.pos[1], p) < 0}
    IN  IF \E i \in 1..n : c.curslist[i].pos = <<>>
        THEN [ret |-> EINVAL, c |-> c, rec |-> <<>>]
        ELSE IF cand = {} THEN [ret |-> DB_NOTFOUND, c |-> c, rec |-> <<>>]
        ELSE LET p == CHOOSE x \in cand : \A y \in cand \ {x} : dup_compare(x, y) < 0
             IN  IF ~Has(Content(st, c.db), p)
                 THEN [ret |-> DB_SECONDARY_BAD, c |-> c, rec |-> <<>>]
                 ELSE [ret |-> DB_OK, c |-> [c EXCEPT !.pos = <<p>>],
                       rec |-> <<p, Lookup(Content(st, c.db), p)>>]

----------------------------------------------------------------------------
(* class table *)

\* The constructor: opens the file of the table, and creates it first if
\* asked to.
table(st, name, create) ==
    LET r == DbOpen(st, TableFile(name), IF create THEN {"DB_THREAD", "DB_CREATE", "DB_EXCL"}
                                         ELSE {"DB_THREAD"})
    IN  [err |-> CASE r.ret = DB_OK  -> NoError
                   [] r.ret = ENOENT -> BDB_ERROR_NOT_FOUND
                   [] r.ret = EEXIST -> BDB_ERROR_EXISTS
                   [] OTHER          -> BDB_ERROR_UNKNOWN,
         st  |-> r.st, res |-> r.ret]

\* exists, given what DB->exists returns: true for 0 only.
exists_on(res) == res = DB_OK
exists(st, tbl, key) == exists_on(DbExists(Table(st, tbl), key))

remove(st, fm, tbl, key) ==
    LET r == DbDel(st, fm, tbl, key)
    IN  [err |-> CASE r.ret = DB_OK               -> NoError
                   [] r.ret = DB_NOTFOUND         -> BDB_ERROR_NOT_FOUND
                   [] r.ret = DB_FOREIGN_CONFLICT -> BDB_ERROR_FOREIGN_KEY
                   [] OTHER                       -> BDB_ERROR_UNKNOWN,
         st  |-> r.st,
         res |-> r.ret]

\* insert without the case DB_KEYEXIST in its switch.
insert_no_keyexist_case(st, fm, tbl, key, data) ==
    LET r == DbPut(st, fm, tbl, key, data, "DB_NOOVERWRITE")
    IN  [err |-> CASE r.ret = DB_OK               -> NoError
                   [] r.ret = EINVAL              -> BDB_ERROR_EXISTS
                   [] r.ret = DB_FOREIGN_CONFLICT -> BDB_ERROR_FOREIGN_KEY
                   [] OTHER                       -> BDB_ERROR_UNKNOWN,
         st  |-> r.st,
         res |-> r.ret]

\* insert without the case EINVAL in its switch, as the switch of update.
insert_no_einval_case(st, fm, tbl, key, data) ==
    LET r == DbPut(st, fm, tbl, key, data, "DB_NOOVERWRITE")
    IN  [err |-> CASE r.ret = DB_OK               -> NoError
                   [] r.ret = DB_KEYEXIST         -> BDB_ERROR_EXISTS
                   [] r.ret = DB_FOREIGN_CONFLICT -> BDB_ERROR_FOREIGN_KEY
                   [] OTHER                       -> BDB_ERROR_UNKNOWN,
         st  |-> r.st,
         res |-> r.ret]

\* insert without the case DB_FOREIGN_CONFLICT in its switch.
insert_no_foreign_case(st, fm, tbl, key, data) ==
    LET r == DbPut(st, fm, tbl, key, data, "DB_NOOVERWRITE")
    IN  [err |-> CASE r.ret = DB_OK       -> NoError
                   [] r.ret = EINVAL      -> BDB_ERROR_EXISTS
                   [] r.ret = DB_KEYEXIST -> BDB_ERROR_EXISTS
                   [] OTHER               -> BDB_ERROR_UNKNOWN,
         st  |-> r.st,
         res |-> r.ret]

\* insert that hands flags 0 to DB->put, as update does.
insert_overwrite(st, fm, tbl, key, data) ==
    LET r == DbPut(st, fm, tbl, key, data, "0")
    IN  [err |-> CASE r.ret = DB_OK               -> NoError
                   [] r.ret = EINVAL              -> BDB_ERROR_EXISTS
                   [] r.ret = DB_KEYEXIST         -> BDB_ERROR_EXISTS
                   [] r.ret = DB_FOREIGN_CONFLICT -> BDB_ERROR_FOREIGN_KEY
                   [] OTHER                       -> BDB_ERROR_UNKNOWN,
         st  |-> r.st,
         res |-> r.ret]

insert(st, fm, tbl, key, data) ==
    LET r == DbPut(st, fm, tbl, key, data, "DB_NOOVERWRITE")
    IN  [err |-> CASE r.ret = DB_OK               -> NoError
                   [] r.ret = EINVAL              -> BDB_ERROR_EXISTS
                   [] r.ret = DB_KEYEXIST         -> BDB_ERROR_EXISTS
                   [] r.ret = DB_FOREIGN_CONFLICT -> BDB_ERROR_FOREIGN_KEY
                   [] OTHER                       -> BDB_ERROR_UNKNOWN,
         st  |-> r.st,
         res |-> r.ret]

\* update without the probe for the key before the put.
update_no_probe(st, fm, tbl, key, data) ==
    LET r == DbPut(st, fm, tbl, key, data, "0")
    IN  [err |-> CASE r.ret = DB_OK               -> NoError
                   [] r.ret = DB_FOREIGN_CONFLICT -> BDB_ERROR_FOREIGN_KEY
                   [] OTHER                       -> BDB_ERROR_UNKNOWN,
         st  |-> r.st,
         res |-> r.ret]

\* update with the case EINVAL of insert in its switch.
update_einval_exists(st, fm, tbl, key, data) ==
    IF DbExists(Table(st, tbl), key) # DB_OK
    THEN [err |-> BDB_ERROR_NOT_FOUND, st |-> st, res |-> DB_NOTFOUND]
    ELSE LET r == DbPut(st, fm, tbl, key, data, "0")
         IN  [err |-> CASE r.ret = DB_OK               -> NoError
                        [] r.ret = EINVAL              -> BDB_ERROR_EXISTS
                        [] r.ret = DB_FOREIGN_CONFLICT -> BDB_ERROR_FOREIGN_KEY
                        [] OTHER                       -> BDB_ERROR_UNKNOWN,
              st  |-> r.st,
              res |-> r.ret]

\* update that reports a failure of the probe other than DB_NOTFOUND as Unknown.
update_on_probe_unknown(st, probe, r) ==
    IF probe # DB_OK
    THEN [err |-> IF probe = DB_NOTFOUND THEN BDB_ERROR_NOT_FOUND ELSE BDB_ERROR_UNKNOWN,
          st |-> st, res |-> probe]
    ELSE [err |-> CASE r.ret = DB_OK               -> NoError
                    [] r.ret = DB_FOREIGN_CONFLICT -> BDB_ERROR_FOREIGN_KEY
                    [] OTHER                       -> BDB_ERROR_UNKNOWN,
          st  |-> r.st,
          res |-> r.ret]

\* update that finds at the put that the key is gone.
update_on_put_probes(st, probe, r) ==
    IF probe # DB_OK \/ Cardinality(r.st.month) > Cardinality(st.month)
                     \/ Cardinality(r.st.season) > Cardinality(st.season)
    THEN [err |-> BDB_ERROR_NOT_FOUND, st |-> st, res |-> DB_NOTFOUND]
    ELSE [err |-> CASE r.ret = DB_OK               -> NoError
                    [] r.ret = DB_FOREIGN_CONFLICT -> BDB_ERROR_FOREIGN_KEY
                    [] OTHER                       -> BDB_ERROR_UNKNOWN,
          st  |-> r.st,
          res |-> r.ret]

\* update in a store st, given what its two calls of the engine return:
\* probe from DB->exists, and r from DB->put, which is called only if the
\* probe has returned 0.
update_on(st, probe, r) ==
    IF probe # DB_OK
    THEN [err |-> BDB_ERROR_NOT_FOUND, st |-> st, res |-> probe]
    ELSE [err |-> CASE r.ret = DB_OK               -> NoError
                    [] r.ret = DB_FOREIGN_CONFLICT -> BDB_ERROR_FOREIGN_KEY
                    [] OTHER                       -> BDB_ERROR_UNKNOWN,
          st  |-> r.st,
          res |-> r.ret]

update(st, fm, tbl, key, data) ==
    update_on(st, DbExists(Table(st, tbl), key), DbPut(st, fm, tbl, key, data, "0"))

select(st, tbl, key) ==
    LET r == DbGet(Table(st, tbl), key)
    IN  [err  |-> CASE r.ret = DB_OK       -> NoError
                    [] r.ret = DB_NOTFOUND -> BDB_ERROR_NOT_FOUND
                    [] OTHER               -> BDB_ERROR_UNKNOWN,
         data |-> r.data,
         res  |-> r.ret]

(* class index *)

\* The constructor without the call of DB->associate.
index_not_associated(st, name) ==
    LET o == DbOpen(st, IndexFile(name), {"DB_THREAD", "DB_CREATE"})
    IN  [err |-> IF o.ret # DB_OK THEN BDB_ERROR_UNKNOWN ELSE NoError,
         st  |-> o.st, res |-> o.ret]

\* The constructor: opens the file of the index, creating it if it is not
\* there, and associates it with its table.
index(st, name) ==
    LET o == DbOpen(st, IndexFile(name), {"DB_THREAD", "DB_CREATE"})
        a == IF o.ret = DB_OK THEN DbAssociate(o.st, name, {"DB_CREATE"}) ELSE o
    IN  [err |-> IF a.ret # DB_OK THEN BDB_ERROR_UNKNOWN ELSE NoError,
         st  |-> a.st, res |-> a.ret]

\* table::add_index on the table object tables[j].
add_index(st, tables, j, name) ==
    LET i == index(st, name)
    IN  [err |-> i.err, st |-> i.st, res |-> i.res,
         tables |-> IF i.err = NoError
                    THEN [tables EXCEPT ![j].m_indexes = Append(@, name)]
                    ELSE tables]

\* index::exists that is true for exactly one entry with the key.
index_exists_single(idx, key) == Cardinality({e \in idx : e[1] = key}) = 1

\* index::exists: at least one entry with the key.
index_exists(idx, key) == DbExists(idx, key) = DB_OK

\* add_foreign with the two flags of the conditional swapped.
add_foreign_swapped(cascade) == IF cascade THEN "abort" ELSE "cascade"

\* add_foreign that hands DB_FOREIGN_NULLIFY over for cascade = true.
add_foreign_cascade_nullifies(cascade) == IF cascade THEN "nullify" ELSE "abort"

\* index::add_foreign(table *, bool cascade): the flag handed to associate_foreign.
add_foreign_flag(cascade) == IF cascade THEN "cascade" ELSE "abort"

\* The nullify overload handing DB_FOREIGN_CASCADE over.
add_foreign_nullify_cascades == "cascade"

\* index::add_foreign(table *, nullify_callback): the flag handed to associate_foreign.
add_foreign_nullify == "nullify"

ForeignModes == {add_foreign_flag(TRUE), add_foreign_flag(FALSE), add_foreign_nullify}

----------------------------------------------------------------------------
(* class sequence *)

\* The constructor with an initial value of 0.
sequence_from_zero(st, n, create) ==
    LET r == SeqOpen(st, n, create, 0)
    IN  [err |-> CASE r.ret = DB_OK  -> NoError
                   [] r.ret = ENOENT -> BDB_ERROR_NOT_FOUND
                   [] r.ret = EEXIST -> BDB_ERROR_EXISTS
                   [] OTHER          -> BDB_ERROR_UNKNOWN,
         st  |-> r.st, res |-> r.ret]

\* The constructor: opens the sequence, and creates it first if asked to.
sequence(st, n, create) ==
    LET r == SeqOpen(st, n, create, 1)
    IN  [err |-> CASE r.ret = DB_OK  -> NoError
                   [] r.ret = ENOENT -> BDB_ERROR_NOT_FOUND
                   [] r.ret = EEXIST -> BDB_ERROR_EXISTS
                   [] OTHER          -> BDB_ERROR_UNKNOWN,
         st  |-> r.st, res |-> r.ret]

id(st, n) ==
    LET r == SeqGet(st, n, 1)
    IN  [err |-> IF r.ret # DB_OK THEN BDB_ERROR_UNKNOWN ELSE NoError,
         st  |-> r.st, id |-> r.id, res |-> r.ret]

----------------------------------------------------------------------------
(* class database *)

\* The parent handed to txn_begin for the top-level transaction.
NULL == <<>>

\* The constructor: opens the environment of the home, begins the
\* top-level transaction and opens the store of the sequences; with create
\* the environment and the store are made, and the store must not be there.
database(home, create) ==
    LET e   == DbEnvOpen(home, IF create THEN {"DB_THREAD", "DB_CREATE"} ELSE {"DB_THREAD"})
        txn == TxnBegin(e.st, NULL)
        q   == IF e.ret = DB_OK
               THEN DbOpen(e.st, SeqFile, IF create THEN {"DB_THREAD", "DB_CREATE", "DB_EXCL"}
                                          ELSE {"DB_THREAD"})
               ELSE e
    IN  IF q.ret # DB_OK
        THEN [err  |-> CASE q.ret = ENOENT -> BDB_ERROR_NOT_FOUND
                         [] q.ret = EEXIST -> BDB_ERROR_EXISTS
                         [] OTHER          -> BDB_ERROR_UNKNOWN,
              st   |-> IF e.ret = DB_OK THEN TxnAbort(q.st, txn) ELSE e.st,
              txns |-> <<>>, res |-> q.ret]
        ELSE [err |-> NoError, st |-> q.st, txns |-> <<txn>>, res |-> q.ret]

add_sequence(st, seqs, n, create) ==
    LET s == sequence(st, n, create)
    IN  [err |-> s.err, st |-> s.st, res |-> s.res,
         seqs |-> IF s.err = NoError THEN Append(seqs, n) ELSE seqs]

\* add_table that registers the table object before it is constructed.
add_table_registers_first(st, tables, name, create) ==
    LET t == table(st, name, create)
    IN  [err |-> t.err, st |-> t.st, res |-> t.res,
         tables |-> Append(tables, [name |-> name, m_indexes |-> <<>>])]

add_table(st, tables, name, create) ==
    LET t == table(st, name, create)
    IN  [err |-> t.err, st |-> t.st, res |-> t.res,
         tables |-> IF t.err = NoError
                    THEN Append(tables, [name |-> name, m_indexes |-> <<>>])
                    ELSE tables]

Top(txns) == txns[Len(txns)]
Pop(txns) == SubSeq(txns, 1, Len(txns) - 1)

\* begin_transaction that hands NULL to txn_begin as the parent, as the
\* constructor does.
begin_without_parent(st, txns) ==
    [err |-> NoError, st |-> st, txns |-> Append(txns, TxnBegin(st, NULL))]

begin_transaction(st, txns) ==
    [err |-> NoError, st |-> st, txns |-> Append(txns, TxnBegin(st, <<Top(txns)>>))]

\* commit_transaction that leaves the committed handle on the stack.
commit_keeps_top(st, txns) ==
    IF Len(txns) = 1
    THEN [err |-> BDB_ERROR_NOT_FOUND, st |-> st, txns |-> txns]
    ELSE [err |-> NoError, st |-> TxnCommit(st, Top(txns)), txns |-> txns]

\* commit_transaction that calls DB_TXN->abort, as rollback_transaction does.
commit_aborts(st, txns) ==
    IF Len(txns) = 1
    THEN [err |-> BDB_ERROR_NOT_FOUND, st |-> st, txns |-> txns]
    ELSE [err |-> NoError, st |-> TxnAbort(st, Top(txns)), txns |-> Pop(txns)]

\* commit_transaction without the check of the size of the stack.
commit_unchecked(st, txns) ==
    [err |-> NoError, st |-> TxnCommit(st, Top(txns)), txns |-> Pop(txns),
     call |-> <<[fn |-> "commit", txn |-> Top(txns)]>>]

\* commit_transaction that takes the handle off the stack after a commit
\* that has succeeded.
commit_on_pops_after(st, txns, r) ==
    IF Len(txns) = 1
    THEN [err |-> BDB_ERROR_NOT_FOUND, st |-> st, txns |-> txns, call |-> <<>>]
    ELSE [err |-> IF r.ret = DB_OK THEN NoError ELSE BDB_ERROR_UNKNOWN,
          st |-> r.st, txns |-> IF r.ret = DB_OK THEN Pop(txns) ELSE txns,
          call |-> <<[fn |-> "commit", txn |-> Top(txns)]>>]

\* commit_transaction, given what DB_TXN->commit returns; the handle is
\* taken off the stack before the call.
commit_on(st, txns, r) ==
    IF Len(txns) = 1
    THEN [err |-> BDB_ERROR_NOT_FOUND, st |-> st, txns |-> txns, call |-> <<>>]
    ELSE [err |-> IF r.ret = DB_OK THEN NoError ELSE BDB_ERROR_UNKNOWN,
          st |-> r.st, txns |-> Pop(txns),
          call |-> <<[fn |-> "commit", txn |-> Top(txns)]>>]

commit_transaction(st, txns) ==
    commit_on(st, txns, [ret |-> DB_OK, st |-> TxnCommit(st, Top(txns))])

\* rollback_transaction that calls DB_TXN->commit, as commit_transaction does.
rollback_commits(st, txns) ==
    IF Len(txns) = 1
    THEN [err |-> BDB_ERROR_NOT_FOUND, st |-> st, txns |-> txns]
    ELSE [err |-> NoError, st |-> TxnCommit(st, Top(txns)), txns |-> Pop(txns)]

\* rollback_transaction that aborts the transaction below the top of the stack.
rollback_below_top(st, txns) ==
    IF Len(txns) = 1
    THEN [err |-> BDB_ERROR_NOT_FOUND, st |-> st, txns |-> txns]
    ELSE [err |-> NoError, st |-> TxnAbort(st, txns[Len(txns) - 1]), txns |-> Pop(txns)]

\* rollback_transaction, given what DB_TXN->abort returns; the handle is
\* taken off the stack before the call.
rollback_on(st, txns, r) ==
    IF Len(txns) = 1
    THEN [err |-> BDB_ERROR_NOT_FOUND, st |-> st, txns |-> txns, call |-> <<>>]
    ELSE [err |-> IF r.ret = DB_OK THEN NoError ELSE BDB_ERROR_UNKNOWN,
          st |-> r.st, txns |-> Pop(txns),
          call |-> <<[fn |-> "abort", txn |-> Top(txns)]>>]

rollback_transaction(st, txns) ==
    rollback_on(st, txns, [ret |-> DB_OK, st |-> TxnAbort(st, Top(txns))])

\* The calls that the destructor of a table object makes: its indexes are
\* deleted first, each closing its file, then the file of the table is closed.
table_calls(t) ==
    [i \in 1..Len(t.m_indexes) |->
        [fn |-> "DB->close", name |-> IndexFile(t.m_indexes[i]), level |-> 0]]
    \o <<[fn |-> "DB->close", name |-> TableFile(t.name), level |-> 0]>>

RECURSIVE tables_calls(_)
tables_calls(tables) ==
    IF tables = <<>> THEN <<>> ELSE table_calls(Head(tables)) \o tables_calls(Tail(tables))

\* The abort of every nested transaction, the top of the stack first.
RECURSIVE abort_calls(_)
abort_calls(txns) ==
    IF Len(txns) = 1 THEN <<>>
    ELSE <<[fn |-> "DB_TXN->abort", name |-> "", level |-> Len(txns)]>> \o abort_calls(Pop(txns))

\* A destructor that commits the top-level transaction before anything is closed.
close_calls_commit_first(txns, seqs, tables) ==
    abort_calls(txns)
    \o <<[fn |-> "DB_TXN->commit", name |-> "", level |-> 1]>>
    \o [i \in 1..Len(seqs) |-> [fn |-> "DB_SEQUENCE->close", name |-> seqs[i], level |-> 0]]
    \o tables_calls(tables)
    \o <<[fn |-> "DB->close", name |-> SeqFile, level |-> 0]>>
    \o <<[fn |-> "DB_ENV->close", name |-> EnvFile, level |-> 0]>>

\* The destructor: the calls it makes on the engine, in their order.
close_calls(txns, seqs, tables) ==
    abort_calls(txns)
    \o [i \in 1..Len(seqs) |-> [fn |-> "DB_SEQUENCE->close", name |-> seqs[i], level |-> 0]]
    \o tables_calls(tables)
    \o <<[fn |-> "DB->close", name |-> SeqFile, level |-> 0]>>
    \o <<[fn |-> "DB_TXN->commit", name |-> "", level |-> 1]>>
    \o <<[fn |-> "DB_ENV->close", name |-> EnvFile, level |-> 0]>>

\* The destructor: aborts every nested transaction, the top first, and
\* commits the top-level transaction; gives the content that is kept.
RECURSIVE close(_, _)
close(st, txns) ==
    IF Len(txns) # 1
    THEN close(TxnAbort(st, Top(txns)), Pop(txns))
    ELSE TxnCommit(st, Top(txns))

----------------------------------------------------------------------------
(* class recordset *)

BDB_RS_TABLE      == 1
BDB_RS_DUPLICATES == 2
BDB_RS_UNIQUE     == 3
BDB_RS_JOIN       == 4

\* The constructors over a table, over an index, and over an index and a key.
recordset_table(tbl) ==
    [m_cursor |-> DbCursor(TableFile(tbl)), m_key |-> NULL,
     m_type |-> BDB_RS_TABLE, m_isset |-> FALSE]

recordset_index(idx) ==
    [m_cursor |-> DbCursor(IndexFile(idx)), m_key |-> NULL,
     m_type |-> BDB_RS_DUPLICATES, m_isset |-> FALSE]

recordset_key(idx, key) ==
    [m_cursor |-> DbCursor(IndexFile(idx)), m_key |-> <<key>>,
     m_type |-> BDB_RS_UNIQUE, m_isset |-> FALSE]

\* The loop of the join constructor: it stops with Unknown at the first
\* recordset of the list without a key; each recordset before that has its
\* cursor set on the first entry with its key and is marked as set, or the
\* join is marked as not set if there is no such entry.
\* The same loop without the mark on the recordsets of the list.
join_list_unmarked(st, rss, list) ==
    LET keyless == {i \in DOMAIN list : rss[list[i]].m_key = NULL}
        stop    == IF keyless = {} THEN Len(list) + 1
                   ELSE CHOOSE i \in keyless : \A k \in keyless : i <= k
        g(x)    == DbcGet(st, rss[x].m_cursor, rss[x].m_key, "DB_SET")
        seen    == {list[i] : i \in 1..(stop - 1)}
    IN  [err  |-> IF keyless = {} THEN NoError ELSE BDB_ERROR_UNKNOWN,
         rss  |-> [x \in DOMAIN rss |->
                      IF x \in seen THEN [rss[x] EXCEPT !.m_cursor = g(x).c] ELSE rss[x]],
         isset    |-> \A x \in seen : g(x).ret = DB_OK,
         curslist |-> [i \in 1..(stop - 1) |-> g(list[i]).c]]

join_list(st, rss, list) ==
    LET keyless == {i \in DOMAIN list : rss[list[i]].m_key = NULL}
        stop    == IF keyless = {} THEN Len(list) + 1
                   ELSE CHOOSE i \in keyless : \A k \in keyless : i <= k
        g(x)    == DbcGet(st, rss[x].m_cursor, rss[x].m_key, "DB_SET")
        seen    == {list[i] : i \in 1..(stop - 1)}
    IN  [err  |-> IF keyless = {} THEN NoError ELSE BDB_ERROR_UNKNOWN,
         rss  |-> [x \in DOMAIN rss |->
                      IF x \in seen
                      THEN [rss[x] EXCEPT !.m_cursor = g(x).c,
                                          !.m_isset  = IF g(x).ret = DB_OK THEN TRUE ELSE @]
                      ELSE rss[x]],
         isset    |-> \A x \in seen : g(x).ret = DB_OK,
         curslist |-> [i \in 1..(stop - 1) |-> g(list[i]).c]]

\* The join constructor: gives the recordsets of the caller as it leaves
\* them and, if it does not throw, the new recordset.
recordset_join(st, rss, tbl, list) ==
    LET l == join_list(st, rss, list)
        j == DbJoin(TableFile(tbl), l.curslist)
    IN  IF l.err # NoError
        THEN [err |-> l.err, rss |-> l.rss, res |-> DB_OK]
        ELSE IF j.ret # DB_OK
        THEN [err |-> BDB_ERROR_UNKNOWN, rss |-> l.rss, res |-> j.ret]
        ELSE [err |-> NoError, res |-> j.ret,
              rss |-> l.rss,
              rs  |-> [m_cursor |-> j.c, m_key |-> NULL, m_type |-> BDB_RS_JOIN,
                       m_isset |-> l.isset]]

\* fetch that asks a table or an index for its first entry every time.
fetch_first_only(st, rs) ==
    LET g == CASE rs.m_type = BDB_RS_TABLE -> DbcGet(st, rs.m_cursor, NULL, "DB_FIRST")
               [] rs.m_type = BDB_RS_DUPLICATES -> DbcGet(st, rs.m_cursor, NULL, "DB_FIRST")
               [] rs.m_type = BDB_RS_UNIQUE -> DbcGet(st, rs.m_cursor, rs.m_key,
                           IF ~rs.m_isset THEN "DB_SET" ELSE "DB_NEXT_DUP")
               [] rs.m_type = BDB_RS_JOIN ->
                    IF rs.m_isset THEN DbcJoinGet(st, rs.m_cursor)
                    ELSE [ret |-> DB_NOTFOUND, c |-> rs.m_cursor, rec |-> <<>>]
    IN  [err |-> NoError, ok |-> g.ret = DB_OK, rec |-> g.rec, res |-> g.ret,
         rs  |-> [rs EXCEPT !.m_cursor = g.c,
                            !.m_isset  = IF g.ret = DB_OK THEN TRUE ELSE @]]

\* fetch that asks for the first entry with the key every time.
fetch_set_only(st, rs) ==
    LET g == CASE rs.m_type = BDB_RS_TABLE -> DbcGet(st, rs.m_cursor, NULL, IF ~rs.m_isset THEN "DB_FIRST" ELSE "DB_NEXT")
               [] rs.m_type = BDB_RS_DUPLICATES -> DbcGet(st, rs.m_cursor, NULL, IF ~rs.m_isset THEN "DB_FIRST" ELSE "DB_NEXT")
               [] rs.m_type = BDB_RS_UNIQUE -> DbcGet(st, rs.m_cursor, rs.m_key, "DB_SET")
               [] rs.m_type = BDB_RS_JOIN ->
                    IF rs.m_isset THEN DbcJoinGet(st, rs.m_cursor)
                    ELSE [ret |-> DB_NOTFOUND, c |-> rs.m_cursor, rec |-> <<>>]
    IN  [err |-> NoError, ok |-> g.ret = DB_OK, rec |-> g.rec, res |-> g.ret,
         rs  |-> [rs EXCEPT !.m_cursor = g.c,
                            !.m_isset  = IF g.ret = DB_OK THEN TRUE ELSE @]]

\* fetch that never asks the cursor of a join.
fetch_join_unset(st, rs) ==
    LET g == CASE rs.m_type = BDB_RS_TABLE -> DbcGet(st, rs.m_cursor, NULL, IF ~rs.m_isset THEN "DB_FIRST" ELSE "DB_NEXT")
               [] rs.m_type = BDB_RS_DUPLICATES -> DbcGet(st, rs.m_cursor, NULL, IF ~rs.m_isset THEN "DB_FIRST" ELSE "DB_NEXT")
               [] rs.m_type = BDB_RS_UNIQUE -> DbcGet(st, rs.m_cursor, rs.m_key,
                           IF ~rs.m_isset THEN "DB_SET" ELSE "DB_NEXT_DUP")
               [] rs.m_type = BDB_RS_JOIN ->
                    [ret |-> DB_NOTFOUND, c |-> rs.m_cursor, rec |-> <<>>]
    IN  [err |-> NoError, ok |-> g.ret = DB_OK, rec |-> g.rec, res |-> g.ret,
         rs  |-> [rs EXCEPT !.m_cursor = g.c,
                            !.m_isset  = IF g.ret = DB_OK THEN TRUE ELSE @]]

\* fetch: the next record and true, or false if the engine gives none.
fetch(st, rs) ==
    LET g == CASE rs.m_type = BDB_RS_TABLE ->
                    DbcGet(st, rs.m_cursor, NULL, IF ~rs.m_isset THEN "DB_FIRST" ELSE "DB_NEXT")
               [] rs.m_type = BDB_RS_DUPLICATES ->
                    DbcGet(st, rs.m_cursor, NULL, IF ~rs.m_isset THEN "DB_FIRST" ELSE "DB_NEXT")
               [] rs.m_type = BDB_RS_UNIQUE ->
                    DbcGet(st, rs.m_cursor, rs.m_key,
                           IF ~rs.m_isset THEN "DB_SET" ELSE "DB_NEXT_DUP")
               [] rs.m_type = BDB_RS_JOIN ->
                    IF rs.m_isset THEN DbcJoinGet(st, rs.m_cursor)
                    ELSE [ret |-> DB_NOTFOUND, c |-> rs.m_cursor, rec |-> <<>>]
    IN  IF rs.m_type \notin {BDB_RS_TABLE, BDB_RS_DUPLICATES, BDB_RS_UNIQUE, BDB_RS_JOIN}
        THEN [err |-> BDB_ERROR_UNKNOWN, ok |-> FALSE, rec |-> <<>>, res |-> DB_NOTFOUND,
              rs |-> rs]
        ELSE [err |-> NoError, ok |-> g.ret = DB_OK, rec |-> g.rec, res |-> g.ret,
              rs  |-> [rs EXCEPT !.m_cursor = g.c,
                                 !.m_isset  = IF g.ret = DB_OK THEN TRUE ELSE @]]

\* rewind that leaves the recordset marked as set.
rewind_keeps_set(rs) ==
    IF rs.m_type = BDB_RS_JOIN
    THEN [err |-> BDB_ERROR_UNKNOWN, rs |-> rs]
    ELSE [err |-> NoError, rs |-> rs]

\* rewind that accepts a join and marks it as not set.
rewind_any(rs) ==
    [err |-> NoError, rs |-> [rs EXCEPT !.m_isset = FALSE]]

\* rewind: the next fetch starts over; a join cannot be rewound.
rewind(rs) ==
    IF rs.m_type = BDB_RS_JOIN
    THEN [err |-> BDB_ERROR_UNKNOWN, rs |-> rs]
    ELSE [err |-> NoError, rs |-> [rs EXCEPT !.m_isset = FALSE]]

----------------------------------------------------------------------------
(* Actions *)

\* No recordset, and no call of fetch on any.
NoRecordsets == <<>>
NoFetched    == <<>>

\* The tables and indexes that the setup of test.cc has opened.
Setup ==
    <<[name |-> "season", m_indexes |-> <<>>],
      [name |-> "month",  m_indexes |-> <<"season", "ordnum">>]>>

\* No sequence object yet, no id handed out, no thread inside a call, the
\* tables open, no recordset.
Idle ==
    /\ m_tables = Setup
    /\ recordsets = NoRecordsets
    /\ fetched = NoFetched
    /\ m_sequences = <<>>
    /\ ids = [n \in SeqNames |-> <<>>]
    /\ undone = FALSE
    /\ fprev = "none"
    /\ threads = [t \in Threads |->
                    [pc |-> "idle", op |-> "none", txn |-> <<>>, mutex |-> <<>>, start |-> <<>>]]

\* The tables and the indexes of table "month" that have an object in this session.
OpenTables  == {t \in TableNames : \E j \in DOMAIN m_tables : m_tables[j].name = t}
OpenIndexes == {i \in associated : \E j \in DOMAIN m_tables :
                    \E k \in DOMAIN m_tables[j].m_indexes : m_tables[j].m_indexes[k] = i}

\* The tables whose content differs between two stores.
Differ(a, b) == {tbl \in TableNames : Table(a, tbl) # Table(b, tbl)}

Init ==
    /\ store  = EmptyStore
    /\ m_txns = <<TxnBegin(EmptyStore, NULL)>>
    /\ fmode  = "none"
    /\ last   = [op |-> "open", err |-> NoError, wrote |-> {}, res |-> DB_OK]
    /\ begun  = <<EmptyStore>>
    /\ Idle

\* The session of test.cc: the foreign key is registered while the database is set up.
InitTxn ==
    /\ store  = EmptyStore
    /\ m_txns = <<TxnBegin(EmptyStore, NULL)>>
    /\ fmode  \in ForeignModes
    /\ last   = [op |-> "open", err |-> NoError, wrote |-> {}, res |-> DB_OK]
    /\ begun  = <<EmptyStore>>
    /\ Idle

Insert(in) ==
    \E tbl \in OpenTables : \E p \in PutsOf(in, tbl) :
        LET r == insert(store, fmode, tbl, p[1], p[2])
        IN  /\ store' = r.st
            /\ last'  = [op |-> "insert", err |-> r.err, wrote |-> Differ(store, r.st),
                         res |-> r.res]
            /\ UNCHANGED <<m_txns, fmode, begun, m_sequences, ids, undone, threads, m_tables, recordsets, fetched, fprev>>

Update(in) ==
    \E tbl \in OpenTables : \E p \in PutsOf(in, tbl) :
        LET r == update(store, fmode, tbl, p[1], p[2])
        IN  /\ store' = r.st
            /\ last'  = [op |-> "update", err |-> r.err, wrote |-> Differ(store, r.st),
                         res |-> r.res]
            /\ UNCHANGED <<m_txns, fmode, begun, m_sequences, ids, undone, threads, m_tables, recordsets, fetched, fprev>>

Remove(in) ==
    \E tbl \in OpenTables : \E key \in KeysOf(in, tbl) :
        LET r == remove(store, fmode, tbl, key)
        IN  /\ store' = r.st
            /\ last'  = [op |-> "remove", err |-> r.err, wrote |-> Differ(store, r.st),
                         res |-> r.res]
            /\ UNCHANGED <<m_txns, fmode, begun, m_sequences, ids, undone, threads, m_tables, recordsets, fetched, fprev>>

Select(in) ==
    \E tbl \in OpenTables : \E key \in KeysOf(in, tbl) :
        /\ last' = [op |-> "select", err |-> select(store, tbl, key).err, wrote |-> {},
                    res |-> select(store, tbl, key).res]
        /\ UNCHANGED <<store, m_txns, fmode, begun, m_sequences, ids, undone, threads, m_tables, recordsets, fetched, fprev>>

Exists(in) ==
    \E tbl \in OpenTables : \E key \in KeysOf(in, tbl) :
        /\ last' = [op |-> "exists", err |-> NoError, wrote |-> {},
                    res |-> IF exists(store, tbl, key) THEN DB_OK ELSE DB_NOTFOUND]
        /\ UNCHANGED <<store, m_txns, fmode, begun, m_sequences, ids, undone, threads, m_tables, recordsets, fetched, fprev>>

\* index::exists on index "season" and on the unique index "ordnum".
IndexExists ==
    \/ \E key \in SeasonKeys :
           /\ "season" \in OpenIndexes
           /\ last' = [op |-> "index_exists", err |-> NoError, wrote |-> {},
                       res |-> IF index_exists(store.iseason, key) THEN DB_OK ELSE DB_NOTFOUND]
           /\ UNCHANGED <<store, m_txns, fmode, begun, m_sequences, ids, undone, threads, m_tables, recordsets, fetched, fprev>>
    \/ \E key \in Ordnums :
           /\ "ordnum" \in OpenIndexes
           /\ last' = [op |-> "index_exists", err |-> NoError, wrote |-> {},
                       res |-> IF index_exists(store.iordnum, key) THEN DB_OK ELSE DB_NOTFOUND]
           /\ UNCHANGED <<store, m_txns, fmode, begun, m_sequences, ids, undone, threads, m_tables, recordsets, fetched, fprev>>

\* index::add_foreign on index "season" with master table "season"; the
\* engine refuses a second association of the same index.
AddForeign ==
    \E mode \in ForeignModes :
        /\ "season" \in OpenTables
        /\ "season" \in OpenIndexes
        /\ IF fmode = "none"
           THEN /\ fmode' = mode
                /\ last'  = [op |-> "add_foreign", err |-> NoError, wrote |-> {}, res |-> DB_OK]
                /\ UNCHANGED <<store, m_txns, begun, m_sequences, ids, undone, threads, m_tables, recordsets, fetched, fprev>>
           ELSE /\ last' = [op |-> "add_foreign", err |-> BDB_ERROR_UNKNOWN, wrote |-> {},
                             res |-> EINVAL]
                /\ UNCHANGED <<store, m_txns, fmode, begun, m_sequences, ids, undone, threads, m_tables, recordsets, fetched, fprev>>

Begin ==
    /\ Len(m_txns) <= MaxNest
    /\ LET r == begin_transaction(store, m_txns)
       IN  /\ store'  = r.st
           /\ m_txns' = r.txns
           /\ last'   = [op |-> "begin", err |-> r.err, wrote |-> {}, res |-> DB_OK]
           /\ begun'  = Append(begun, store)
           /\ UNCHANGED <<fmode, m_sequences, ids, undone, threads, m_tables, recordsets, fetched, fprev>>

Commit ==
    LET r == commit_transaction(store, m_txns)
    IN  /\ store'  = r.st
        /\ m_txns' = r.txns
        /\ last'   = [op |-> "commit", err |-> r.err,
                       wrote |-> IF r.err = NoError THEN Differ(Top(begun), store) ELSE {},
                       res   |-> DB_OK]
        /\ begun'  = IF r.err = NoError THEN Pop(begun) ELSE begun
        /\ UNCHANGED <<fmode, m_sequences, ids, undone, threads, m_tables, recordsets, fetched, fprev>>

Rollback ==
    LET r == rollback_transaction(store, m_txns)
    IN  /\ store'  = r.st
        /\ m_txns' = r.txns
        /\ last'   = [op |-> "rollback", err |-> r.err,
                       wrote |-> IF r.err = NoError THEN Differ(Top(begun), store) ELSE {},
                       res   |-> DB_OK]
        /\ begun'  = IF r.err = NoError THEN Pop(begun) ELSE begun
        /\ undone' = (undone \/ (r.err = NoError /\ r.st.seq # store.seq))
        /\ UNCHANGED <<fmode, m_sequences, ids, threads, m_tables, recordsets, fetched, fprev>>

\* table::update as the two steps of a thread: the probe, which ends the
\* call with NotFound or lets it go on, and the put, which sees the store
\* as the calls of other threads have left it in between. The thread notes
\* at the put whether the key was still there.
UpdateProbe(t, in) ==
    /\ threads[t].pc \in {"idle", "done"}
    /\ \E tbl \in OpenTables : \E p \in PutsOf(in, tbl) :
          \E probe \in {DbExists(Table(store, tbl), p[1])} :
              IF probe # DB_OK
              THEN /\ \E u \in {update_on(store, probe, DbPut(store, fmode, tbl, p[1], p[2], "0"))} :
                         last' = [op |-> "update", err |-> u.err, wrote |-> {}, res |-> u.res]
                   /\ UNCHANGED threads
              ELSE /\ threads' = [threads EXCEPT ![t] =
                                     [pc |-> "put", op |-> "update", tbl |-> tbl, key |-> p[1],
                                      data |-> p[2], probe |-> probe, absent |-> FALSE]]
                   /\ UNCHANGED last
    /\ UNCHANGED <<store, m_txns, fmode, begun, m_sequences, ids, undone, m_tables, recordsets, fetched, fprev>>

UpdatePut(t) ==
    /\ threads[t].pc = "put"
    /\ \E c \in {threads[t]} :
       \E u \in {update_on(store, c.probe, DbPut(store, fmode, c.tbl, c.key, c.data, "0"))} :
          /\ store' = u.st
          /\ last'  = [op |-> "update", err |-> u.err, wrote |-> Differ(store, u.st),
                       res |-> u.res]
          /\ threads' = [threads EXCEPT ![t] =
                            [c EXCEPT !.pc = "done",
                                      !.absent = ~Has(Table(store, c.tbl), c.key)]]
    /\ UNCHANGED <<m_txns, fmode, begun, m_sequences, ids, undone, m_tables, recordsets, fetched, fprev>>

\* Whole calls made by the threads of Callers, one call after another, on
\* the one database object. In these sessions the variable threads is a
\* history: for each open nested transaction the thread that began it and
\* the threads that have written since, and for the last transaction ended
\* the thread that ended it and the same two.
Callers == {"t1", "t2"}
NoneEnded == [caller |-> "none", by |-> "none", writers |-> {}]

ThreadBegin(t) ==
    /\ Len(m_txns) <= MaxShared
    /\ \E r \in {begin_transaction(store, m_txns)} :
          /\ store'  = r.st
          /\ m_txns' = r.txns
          /\ last'   = [op |-> "begin", err |-> r.err, wrote |-> {}, res |-> DB_OK]
    /\ begun' = Append(begun, store)
    /\ threads' = [threads EXCEPT !.open = Append(@, [by |-> t, writers |-> {}])]
    /\ UNCHANGED <<fmode, m_sequences, ids, undone, m_tables, recordsets, fetched, fprev>>

ThreadWrite(t, in) ==
    /\ \E tbl \in OpenTables : \E p \in PutsOf(in, tbl) : \E call \in {"insert", "remove"} :
          \E r \in {IF call = "insert" THEN insert(store, fmode, tbl, p[1], p[2])
                                       ELSE remove(store, fmode, tbl, p[1])} :
              /\ store' = r.st
              /\ last'  = [op |-> call, err |-> r.err, wrote |-> Differ(store, r.st),
                           res |-> r.res]
              /\ threads' = IF r.err = NoError /\ threads.open # <<>>
                            THEN [threads EXCEPT !.open[Len(threads.open)].writers = @ \cup {t}]
                            ELSE threads
    /\ UNCHANGED <<m_txns, fmode, begun, m_sequences, ids, undone, m_tables, recordsets, fetched, fprev>>

ThreadEnd(t) ==
    /\ \E call \in {"commit", "rollback"} :
          \E r \in {IF call = "commit" THEN commit_transaction(store, m_txns)
                                       ELSE rollback_transaction(store, m_txns)} :
              /\ store'  = r.st
              /\ m_txns' = r.txns
              /\ last'   = [op |-> call, err |-> r.err,
                            wrote |-> IF r.err = NoError THEN Differ(Top(begun), store) ELSE {},
                            res |-> DB_OK]
              /\ begun'  = IF r.err = NoError THEN Pop(begun) ELSE begun
              /\ threads' =
                    IF r.err # NoError THEN threads
                    ELSE [open  |-> Pop(threads.open),
                          ended |-> [caller  |-> t,
                                     by      |-> Top(threads.open).by,
                                     writers |-> Top(threads.open).writers]]
    /\ UNCHANGED <<fmode, m_sequences, ids, undone, m_tables, recordsets, fetched, fprev>>

\* Calls during which the engine fails: an update whose probe or whose put
\* loses a deadlock, and a commit or rollback of a nested transaction whose
\* DB_TXN->commit or DB_TXN->abort fails.
UpdateFails(in) ==
    \E tbl \in OpenTables : \E p \in PutsOf(in, tbl) :
        \E probe \in DbExistsResults(Table(store, tbl), p[1]) :
        \E r \in DbPutResults(store, fmode, tbl, p[1], p[2], "0") :
            /\ probe = DB_LOCK_DEADLOCK \/ (probe = DB_OK /\ r.ret = DB_LOCK_DEADLOCK)
            /\ \E u \in {update_on(store, probe, r)} :
                  /\ store' = u.st
                  /\ last'  = [op |-> "update", err |-> u.err, wrote |-> Differ(store, u.st),
                               res |-> u.res]
            /\ UNCHANGED <<m_txns, fmode, begun, m_sequences, ids, undone, threads, m_tables, recordsets, fetched, fprev>>

CommitFails ==
    /\ Len(m_txns) > 1
    /\ \E r \in TxnCommitResults(store, Top(m_txns)) :
          /\ r.ret # DB_OK
          /\ \E c \in {commit_on(store, m_txns, r)} :
                /\ store'  = c.st
                /\ m_txns' = c.txns
                /\ last'   = [op |-> "commit", err |-> c.err, wrote |-> Differ(store, c.st),
                              res |-> r.ret]
    /\ begun' = Pop(begun)
    /\ UNCHANGED <<fmode, m_sequences, ids, undone, threads, m_tables, recordsets, fetched, fprev>>

RollbackFails ==
    /\ Len(m_txns) > 1
    /\ \E r \in TxnAbortResults(store, Top(m_txns)) :
          /\ r.ret # DB_OK
          /\ \E c \in {rollback_on(store, m_txns, r)} :
                /\ store'  = c.st
                /\ m_txns' = c.txns
                /\ last'   = [op |-> "rollback", err |-> c.err, wrote |-> Differ(store, c.st),
                              res |-> r.ret]
    /\ begun' = Pop(begun)
    /\ UNCHANGED <<fmode, m_sequences, ids, undone, threads, m_tables, recordsets, fetched, fprev>>

\* Sequences are added while the database is set up, outside of nested
\* transactions.
AddSequence ==
    /\ Len(m_txns) = 1
    /\ Len(m_sequences) < MaxHandles
    /\ \E n \in SeqNames : \E create \in BOOLEAN :
          LET r == add_sequence(store, m_sequences, n, create)
          IN  /\ store' = r.st
              /\ m_sequences' = r.seqs
              /\ last' = [op |-> "add_sequence", err |-> r.err, wrote |-> {}, res |-> r.res]
              /\ UNCHANGED <<m_txns, fmode, begun, ids, undone, threads, m_tables, recordsets, fetched, fprev>>

Id ==
    \E i \in 1..Len(m_sequences) :
        LET n == m_sequences[i]
            r == id(store, n)
        IN  /\ Len(ids[n]) < MaxIds
            /\ store' = r.st
            /\ ids' = [ids EXCEPT ![n] = Append(@, r.id)]
            /\ last' = [op |-> "id", err |-> r.err, wrote |-> {}, res |-> r.res]
            /\ UNCHANGED <<m_txns, fmode, begun, m_sequences, undone, threads, m_tables, recordsets, fetched, fprev>>

\* The database object is deleted and a new one is made on the same home.
\* The recordsets are closed before; the new object has no table, index or
\* sequence object yet.
Reopen ==
    LET kept == [close(store, m_txns) EXCEPT !.assoc = {}]
        d    == database(kept, FALSE)
    IN  /\ recordsets = NoRecordsets
        /\ store' = d.st
        /\ m_txns' = d.txns
        /\ m_sequences' = <<>>
        /\ m_tables' = <<>>
        /\ fmode' = "none"
        /\ begun' = <<kept>>
        /\ undone' = (undone \/ kept.seq # store.seq)
        /\ last' = [op |-> "open", err |-> NoError, wrote |-> Differ(store, kept), res |-> DB_OK]
        /\ fprev' = fmode
        /\ UNCHANGED <<ids, threads, recordsets, fetched>>

\* What a home holds after the process has ended without the destructor:
\* the top-level transaction was never committed, and recovery undoes it; a
\* process that joins the environment without recovery finds what the ended
\* process has left in the shared regions.
AfterCrash(st, txns) == {TxnAbort(st, txns[1]), st}

\* The process ends at this point and a new one opens the home.
Crash ==
    \E found \in AfterCrash(store, m_txns) :
        LET kept == [found EXCEPT !.assoc = {}]
        IN  /\ recordsets = NoRecordsets
            /\ store' = kept
            /\ m_txns' = <<TxnBegin(kept, NULL)>>
            /\ m_sequences' = <<>>
            /\ m_tables' = <<>>
            /\ fmode' = "none"
            /\ begun' = <<kept>>
            /\ undone' = (undone \/ kept.seq # store.seq)
            /\ last' = [op |-> "crash", err |-> NoError, wrote |-> Differ(store, kept),
                        res |-> DB_OK]
            /\ fprev' = fmode
            /\ UNCHANGED <<ids, threads, recordsets, fetched>>

\* Tables and indexes are added while the database is set up, outside of
\* nested transactions; a table that has an object is not opened again, the
\* tables created are those of test.cc, and an index is added once to the
\* object of table "month".
AddTable ==
    /\ Len(m_txns) = 1
    /\ \E name \in TableNames \cup {OtherTable} : \E create \in BOOLEAN :
          LET r == add_table(store, m_tables, name, create)
          IN  /\ create \/ \A j \in DOMAIN m_tables : m_tables[j].name # name
              /\ create => name \in TableNames
              /\ store' = r.st
              /\ m_tables' = r.tables
              /\ last' = [op |-> "add_table", err |-> r.err, wrote |-> Differ(store, r.st),
                          res |-> r.res]
              /\ UNCHANGED <<m_txns, fmode, begun, m_sequences, ids, undone, threads, recordsets, fetched, fprev>>

AddIndex ==
    /\ Len(m_txns) = 1
    /\ \E j \in DOMAIN m_tables : \E name \in associated \ OpenIndexes :
          LET r == add_index(store, m_tables, j, name)
          IN  /\ m_tables[j].name = "month"
              /\ store' = r.st
              /\ m_tables' = r.tables
              /\ last' = [op |-> "add_index", err |-> r.err,
                          wrote |-> {i \in {name} : Secondary(r.st, i) # Secondary(store, i)},
                          res |-> r.res]
              /\ UNCHANGED <<m_txns, fmode, begun, m_sequences, ids, undone, threads, recordsets, fetched, fprev>>

\* Recordsets.  The caller holds up to two recordsets, "a" over a table or
\* an index and "b" over an index and a key, and one join "j".
\* The keys asked for: a season with two months and one with none; the
\* ordinal number of a month of that season and of a month of another.
RsKeys(idx) == IF idx = "season" THEN {"s1", "s3"} ELSE {1, 3}
JoinLists ==
    {<<>>} \cup {<<x>> : x \in DOMAIN recordsets}
           \cup {l \in {<<x, y>> : x \in DOMAIN recordsets, y \in DOMAIN recordsets} :
                       l[1] # l[2]}

Opened(h, rs, res) ==
    /\ recordsets' = [x \in DOMAIN recordsets \cup {h} |-> IF x = h THEN rs ELSE recordsets[x]]
    /\ fetched' = [x \in DOMAIN fetched \cup {h} |-> IF x = h THEN <<>> ELSE fetched[x]]
    /\ last' = [op |-> "recordset", err |-> NoError, wrote |-> {}, res |-> res]
    /\ UNCHANGED <<store, m_txns, fmode, begun, m_sequences, ids, undone, threads, m_tables, fprev>>

NewRecordset(slots, keyed) ==
    \/ \E h \in slots \ DOMAIN recordsets :
           \/ \E tbl \in OpenTables : Opened(h, recordset_table(tbl), DB_OK)
           \/ \E idx \in OpenIndexes : Opened(h, recordset_index(idx), DB_OK)
    \/ \E h \in keyed \ DOMAIN recordsets :
           \E idx \in OpenIndexes : \E key \in RsKeys(idx) :
               Opened(h, recordset_key(idx, key), DB_OK)

NewJoin ==
    /\ "j" \notin DOMAIN recordsets
    /\ \E tbl \in OpenTables : \E list \in JoinLists :
          \E r \in {recordset_join(store, recordsets, tbl, list)} :
              IF r.err = NoError
              THEN /\ recordsets' = [x \in DOMAIN recordsets \cup {"j"} |->
                                        IF x = "j" THEN r.rs ELSE r.rss[x]]
                   /\ fetched' = [x \in DOMAIN fetched \cup {"j"} |->
                                     IF x = "j" THEN <<>> ELSE fetched[x]]
                   /\ last' = [op |-> "join", err |-> r.err, wrote |-> {}, res |-> r.res]
                   /\ UNCHANGED <<store, m_txns, fmode, begun, m_sequences, ids, undone, threads, m_tables, fprev>>
              ELSE /\ recordsets' = r.rss
                   /\ last' = [op |-> "join", err |-> r.err, wrote |-> {}, res |-> r.res]
                   /\ UNCHANGED <<store, m_txns, fmode, begun, m_sequences, ids, undone, threads, m_tables, fetched, fprev>>

Fetch(max) ==
    \E h \in DOMAIN recordsets :
        \E r \in {fetch(store, recordsets[h])} :
            /\ Len(fetched[h]) < max
            /\ recordsets' = [recordsets EXCEPT ![h] = r.rs]
            /\ fetched' = [fetched EXCEPT ![h] = Append(@, [ok |-> r.ok, rec |-> r.rec])]
            /\ last' = [op |-> "fetch", err |-> r.err, wrote |-> {}, res |-> r.res]
            /\ UNCHANGED <<store, m_txns, fmode, begun, m_sequences, ids, undone, threads, m_tables, fprev>>

Rewind(slots) ==
    \E h \in DOMAIN recordsets \cap slots :
        LET r == rewind(recordsets[h])
        IN  /\ recordsets' = [recordsets EXCEPT ![h] = r.rs]
            /\ fetched' = IF r.err = NoError THEN [fetched EXCEPT ![h] = <<>>] ELSE fetched
            /\ last' = [op |-> "rewind", err |-> r.err, wrote |-> {}, res |-> DB_OK]
            /\ UNCHANGED <<store, m_txns, fmode, begun, m_sequences, ids, undone, threads, m_tables, fprev>>

\* Threads. Each of begin_transaction, commit_transaction and
\* rollback_transaction constructs a mutex of its own on entry and locks it,
\* then reads and changes m_txns in separate steps.
TxnCalls == {"begin", "commit", "rollback"}
AllIdle  == \A t \in Threads : threads[t].pc = "idle"
Inside(t) == threads[t].pc \in {"txn_begin", "push", "size", "top", "pop", "end"}

\* A mutex is free if no thread inside a call holds it.
Free(mutex) == \A u \in Threads : Inside(u) => threads[u].mutex # mutex

\* Every thread calls one of the three functions; none has entered yet.
Spawn ==
    /\ AllIdle
    /\ \E ops \in [Threads -> TxnCalls] :
          threads' = [t \in Threads |->
                        [pc |-> "lock", op |-> ops[t], txn |-> <<>>,
                         mutex |-> <<t>>, start |-> m_txns]]
    /\ UNCHANGED <<store, m_txns, fmode, last, begun, m_sequences, ids, undone, m_tables, recordsets, fetched, fprev>>

\* scoped_lock on the mutex that this call has constructed.
Lock(t) ==
    /\ threads[t].pc = "lock"
    /\ Free(threads[t].mutex)
    /\ threads' = [threads EXCEPT ![t].pc = IF threads[t].op = "begin" THEN "txn_begin" ELSE "size"]
    /\ UNCHANGED <<store, m_txns, fmode, last, begun, m_sequences, ids, undone, m_tables, recordsets, fetched, fprev>>

\* begin_transaction: txn_begin with m_txns.top() as the parent. top() of
\* an empty stack is undefined.
BeginChild(t) ==
    /\ threads[t].pc = "txn_begin"
    /\ threads' = IF m_txns = <<>>
                  THEN [threads EXCEPT ![t].pc = "undefined"]
                  ELSE [threads EXCEPT ![t].pc = "push",
                                       ![t].txn = <<TxnBegin(store, <<Top(m_txns)>>)>>]
    /\ UNCHANGED <<store, m_txns, fmode, last, begun, m_sequences, ids, undone, m_tables, recordsets, fetched, fprev>>

Push(t) ==
    /\ threads[t].pc = "push"
    /\ m_txns' = Append(m_txns, threads[t].txn[1])
    /\ threads' = [threads EXCEPT ![t].pc = "done"]
    /\ last' = [op |-> "begin", err |-> NoError, wrote |-> {}, res |-> DB_OK]
    /\ UNCHANGED <<store, fmode, begun, m_sequences, ids, undone, m_tables, recordsets, fetched, fprev>>

\* commit_transaction and rollback_transaction: the check of the size.
CheckSize(t) ==
    /\ threads[t].pc = "size"
    /\ IF Len(m_txns) = 1
       THEN /\ threads' = [threads EXCEPT ![t].pc = "done"]
            /\ last' = [op |-> threads[t].op, err |-> BDB_ERROR_NOT_FOUND,
                        wrote |-> {}, res |-> DB_OK]
       ELSE /\ threads' = [threads EXCEPT ![t].pc = "top"]
            /\ UNCHANGED last
    /\ UNCHANGED <<store, m_txns, fmode, begun, m_sequences, ids, undone, m_tables, recordsets, fetched, fprev>>

\* top() of an empty stack is undefined.
ReadTop(t) ==
    /\ threads[t].pc = "top"
    /\ threads' = IF m_txns = <<>>
                  THEN [threads EXCEPT ![t].pc = "undefined"]
                  ELSE [threads EXCEPT ![t].pc = "pop", ![t].txn = <<Top(m_txns)>>]
    /\ UNCHANGED <<store, m_txns, fmode, last, begun, m_sequences, ids, undone, m_tables, recordsets, fetched, fprev>>

\* pop() of an empty stack is undefined.
PopTop(t) ==
    /\ threads[t].pc = "pop"
    /\ IF m_txns = <<>>
       THEN /\ threads' = [threads EXCEPT ![t].pc = "undefined"]
            /\ UNCHANGED m_txns
       ELSE /\ threads' = [threads EXCEPT ![t].pc = "end"]
            /\ m_txns' = Pop(m_txns)
    /\ UNCHANGED <<store, fmode, last, begun, m_sequences, ids, undone, m_tables, recordsets, fetched, fprev>>

\* DB_TXN->commit or DB_TXN->abort of the handle read from the stack. The
\* handle is freed by the call; a second call on it is undefined.
Ended(t, txn) ==
    \E u \in Threads \ {t} :
        /\ threads[u].op \in {"commit", "rollback"}
        /\ threads[u].txn = txn
        /\ threads[u].pc \in {"done", "undefined"}

EndTxn(t) ==
    /\ threads[t].pc = "end"
    /\ IF Ended(t, threads[t].txn)
       THEN /\ threads' = [threads EXCEPT ![t].pc = "undefined"]
            /\ UNCHANGED <<store, last>>
       ELSE /\ threads' = [threads EXCEPT ![t].pc = "done"]
            /\ store' = IF threads[t].op = "commit"
                        THEN TxnCommit(store, threads[t].txn[1])
                        ELSE TxnAbort(store, threads[t].txn[1])
            /\ last' = [op |-> threads[t].op, err |-> NoError, wrote |-> {}, res |-> DB_OK]
    /\ UNCHANGED <<m_txns, fmode, begun, m_sequences, ids, undone, m_tables, recordsets, fetched, fprev>>

\* Sessions without nested transactions, on all keys and data.
Next ==
    \/ Insert(AllInputs)
    \/ Update(AllInputs)
    \/ Remove(AllInputs)
    \/ Select(AllInputs)
    \/ Exists(AllInputs)
    \/ IndexExists
    \/ AddForeign
    \/ Commit
    \/ Rollback

Spec == Init /\ [][Next]_vars

\* Sessions with nested transactions, on the keys and data of TxnInputs.
NextTxn ==
    \/ Insert(TxnInputs)
    \/ Update(TxnInputs)
    \/ Remove(TxnInputs)
    \/ Begin
    \/ Commit
    \/ Rollback

SpecTxn == InitTxn /\ [][NextTxn]_vars

\* Sessions with sequences, nested transactions and reopening.
NextSeq ==
    \/ AddSequence
    \/ Id
    \/ Begin
    \/ Commit
    \/ Rollback
    \/ Reopen

SpecSeq == Init /\ [][NextSeq]_vars

\* Sessions with sequences that end with or without the destructor.
NextCrash ==
    \/ AddSequence
    \/ Id
    \/ Reopen
    \/ Crash

SpecCrash == Init /\ [][NextCrash]_vars

\* A home that holds nothing.
NoHome == [EmptyStore EXCEPT !.files = {}, !.assoc = {}]

\* Sessions that start on a home just created and add tables and indexes,
\* write and reopen the home.
InitLife ==
    /\ store  = database(NoHome, TRUE).st
    /\ m_txns = database(NoHome, TRUE).txns
    /\ fmode  = "none"
    /\ last   = [op |-> "open", err |-> NoError, wrote |-> {}, res |-> DB_OK]
    /\ begun  = <<database(NoHome, TRUE).st>>
    /\ m_tables = <<>>
    /\ recordsets = NoRecordsets
    /\ fetched = NoFetched
    /\ m_sequences = <<>>
    /\ ids = [n \in SeqNames |-> <<>>]
    /\ undone = FALSE
    /\ fprev = "none"
    /\ threads = [t \in Threads |->
                    [pc |-> "idle", op |-> "none", txn |-> <<>>, mutex |-> <<>>, start |-> <<>>]]

NextLife ==
    \/ AddTable
    \/ AddIndex
    \/ Insert(LifeInputs)
    \/ Reopen

SpecLife == InitLife /\ [][NextLife]_vars

\* Sessions on the tables of test.cc that add sequences, write, nest
\* transactions and end with the destructor.
NextClose ==
    \/ AddSequence
    \/ Insert(LifeInputs)
    \/ Begin
    \/ Commit
    \/ Rollback
    \/ Reopen

SpecClose == Init /\ [][NextClose]_vars

\* Sessions on the tables of test.cc that insert records and read them
\* through one recordset.
NextRs ==
    \/ Insert(RsInputs)
    \/ NewRecordset({"a"}, {"a"})
    \/ Fetch(MaxFetch)
    \/ Rewind({"a"})

SpecRs == Init /\ [][NextRs]_vars

\* The tables of test.cc with the records of RsInputs inserted.
Loaded ==
    WriteMonth(WriteMonth(WriteMonth(EmptyStore,
        "m1", [season |-> "s2", ordnum |-> 3]),
        "m2", [season |-> "s1", ordnum |-> 1]),
        "m3", [season |-> "s1", ordnum |-> 2])

InitJoin ==
    /\ store  = Loaded
    /\ m_txns = <<TxnBegin(EmptyStore, NULL)>>
    /\ fmode  = "none"
    /\ last   = [op |-> "open", err |-> NoError, wrote |-> {}, res |-> DB_OK]
    /\ begun  = <<EmptyStore>>
    /\ Idle

\* Sessions that read the records through recordsets and joins of them;
\* rewind is called on the join.
NextJoin ==
    \/ NewRecordset({"a"}, {"a", "b"})
    \/ NewJoin
    \/ Fetch(MaxJoinFetch)
    \/ Rewind({"j"})

SpecJoin == InitJoin /\ [][NextJoin]_vars

\* Sessions on one home: the database is closed and opened again, its
\* tables and indexes are opened, and the foreign key is registered anew.
\* As in test.cc, a session writes after it has opened both tables and
\* both indexes, so that every write reaches the indexes.
AllOpen == OpenTables = TableNames /\ OpenIndexes = associated
NextSession ==
    \/ AddTable
    \/ AddIndex
    \/ AddForeign
    \/ AllOpen /\ Insert(LifeInputs)
    \/ AllOpen /\ Remove(LifeInputs)
    \/ Reopen

SpecSession == Init /\ [][NextSession]_vars

\* Sessions in which the threads of Callers call begin_transaction, insert,
\* remove, commit_transaction and rollback_transaction in turn.
InitShared ==
    /\ store  = EmptyStore
    /\ m_txns = <<TxnBegin(EmptyStore, NULL)>>
    /\ fmode  = "none"
    /\ last   = [op |-> "open", err |-> NoError, wrote |-> {}, res |-> DB_OK]
    /\ begun  = <<EmptyStore>>
    /\ m_tables = Setup
    /\ recordsets = NoRecordsets
    /\ fetched = NoFetched
    /\ m_sequences = <<>>
    /\ ids = [n \in SeqNames |-> <<>>]
    /\ undone = FALSE
    /\ fprev = "none"
    /\ threads = [open |-> <<>>, ended |-> NoneEnded]

NextShared ==
    \E t \in Callers :
        \/ ThreadBegin(t)
        \/ ThreadWrite(t, SharedInputs)
        \/ ThreadEnd(t)

SpecShared == InitShared /\ [][NextShared]_vars

\* One thread calls update while the others insert and remove.
Updater == "t1"
NextRace ==
    \/ Insert(TxnInputs)
    \/ Remove(TxnInputs)
    \/ UpdateProbe(Updater, TxnInputs)
    \/ UpdatePut(Updater)

SpecRace == InitTxn /\ [][NextRace]_vars

\* Sessions with nested transactions in which calls of the engine fail.
NextFault ==
    \/ Insert(TxnInputs)
    \/ Update(TxnInputs)
    \/ UpdateFails(TxnInputs)
    \/ Begin
    \/ Commit
    \/ Rollback
    \/ CommitFails
    \/ RollbackFails

SpecFault == InitTxn /\ [][NextFault]_vars

\* One thread begins transactions; then every thread of Threads calls
\* begin_transaction, commit_transaction or rollback_transaction.
NextThreads ==
    \/ AllIdle /\ Begin
    \/ Spawn
    \/ \E t \in Threads : Lock(t)
    \/ \E t \in Threads : BeginChild(t)
    \/ \E t \in Threads : Push(t)
    \/ \E t \in Threads : CheckSize(t)
    \/ \E t \in Threads : ReadTop(t)
    \/ \E t \in Threads : PopTop(t)
    \/ \E t \in Threads : EndTxn(t)

SpecThreads == Init /\ [][NextThreads]_vars

----------------------------------------------------------------------------
(* Properties *)

AllPuts(tbl) == PutsOf(AllInputs, tbl)
AllKeys(tbl) == KeysOf(AllInputs, tbl)

\* exists(K) is true and select(K) returns exactly the data of entry e = <<K, D>>.
Keeps(st, tbl, e) ==
    /\ exists(st, tbl, e[1])
    /\ LET r == select(st, tbl, e[1])
       IN  r.err = NoError /\ r.data = {e[2]}

\* The record e of table tbl references master key k through a foreign key
\* whose mode deletes or rewrites the referencing records.
Referencing(tbl, e, k) ==
    /\ tbl = "month"
    /\ fmode \in {add_foreign_flag(TRUE), add_foreign_nullify}
    /\ season_ix_index(e[1], e[2]) = k

\* The records of all tables in the current state, each with its table.
Records == UNION {{<<tbl, e>> : e \in Table(store, tbl)} : tbl \in TableNames}

\* A successful insert leaves its record readable with the data inserted, and
\* every call that can be made in the current state, other than a successful
\* update or remove of a record's key and a rollback that undoes its insert,
\* leaves every record readable with the same data; with lenient, a successful
\* remove of the master key that the record references is set aside too.
RoundTrip(lenient) ==
    /\ \A t2 \in TableNames : \A p \in AllPuts(t2) :
           LET i == insert(store, fmode, t2, p[1], p[2])
               u == update(store, fmode, t2, p[1], p[2])
           IN  /\ i.err = NoError => Keeps(i.st, t2, p)
               /\ \A x \in Records :
                   /\ Keeps(i.st, x[1], x[2])
                   /\ \/ t2 = x[1] /\ p[1] = x[2][1] /\ u.err = NoError
                      \/ Keeps(u.st, x[1], x[2])
    /\ \A t2 \in TableNames : \A k \in AllKeys(t2) :
           LET r == remove(store, fmode, t2, k)
           IN  \A x \in Records :
                   \/ t2 = x[1] /\ k = x[2][1] /\ r.err = NoError
                   \/ lenient /\ t2 = "season" /\ r.err = NoError
                              /\ Referencing(x[1], x[2], k)
                   \/ Keeps(r.st, x[1], x[2])
    /\ LET b == begin_transaction(store, m_txns)
           c == commit_transaction(store, m_txns)
           r == rollback_transaction(store, m_txns)
       IN  \A x \in Records :
               /\ Keeps(b.st, x[1], x[2])
               /\ Keeps(c.st, x[1], x[2])
               /\ x[2] \in Table(Top(begun), x[1]) => Keeps(r.st, x[1], x[2])

\* C1: a successful insert(K, D) makes exists(K) true and select(K) return
\* exactly D, and the record stays so across every later call except a
\* successful update or remove of K, a rollback of the enclosing transaction,
\* and a successful remove of the master key the record references under a
\* cascading or nullifying foreign key.
C1_RoundTrip == RoundTrip(TRUE)

\* C1 as stated: only an update or remove of K or a rollback ends the round trip.
C1_AsStated == RoundTrip(FALSE)

C1_Witness ==
    /\ last.op = "insert" /\ last.err = NoError /\ "month" \in last.wrote
    /\ Len(m_txns) >= 2
    /\ store.season # {}

\* C2: each index of table "month" holds exactly the entries <<P(K, D), K>>
\* of the records <<K, D>> of the table for which its callback P derives a key.
C2_IndexConsistent ==
    /\ store.iseason = {<<season_ix_index(e[1], e[2]), e[1]>> :
                            e \in {x \in store.month :
                                      season_ix_index(x[1], x[2]) # DB_DONOTINDEX}}
    /\ store.iordnum = {<<ordnum_ix_index(e[1], e[2]), e[1]>> : e \in store.month}
    /\ \A k \in Ordnums :
           index_exists(store.iordnum, k) <=>
               \E e \in store.month : ordnum_ix_index(e[1], e[2]) = k

\* A remove has just taken a record with both index entries away and another
\* record, indexed by one index only, is left.
C2_Witness ==
    /\ last.op = "remove" /\ last.err = NoError /\ "month" \in last.wrote
    /\ Cardinality(store.month) = 1
    /\ store.iseason = {}
    /\ store.iordnum # {}

\* Two stores hold the same records in every table.
SameTables(a, b) == \A tbl \in TableNames : Table(a, tbl) = Table(b, tbl)

\* C3: rolling back the innermost transaction leaves the tables with the
\* content they had when it began, which includes every earlier write of the
\* parent; the content is still that after the parent's commit.
C3_InnerRollback ==
    Len(m_txns) >= 2 =>
        LET r == rollback_transaction(store, m_txns)
        IN  /\ r.err = NoError
            /\ SameTables(r.st, Top(begun))
            /\ Len(r.txns) >= 2 =>
                   LET c == commit_transaction(r.st, r.txns)
                   IN  c.err = NoError /\ SameTables(c.st, Top(begun))

\* An inner rollback has undone writes and the parent, itself nested, still
\* sees writes of its own.
C3_Witness ==
    /\ last.op = "rollback" /\ last.err = NoError /\ last.wrote # {}
    /\ Len(m_txns) >= 2
    /\ ~SameTables(store, Top(begun))

\* C4: once a child transaction has been committed into an outer one, the
\* rollback of the outer transaction leaves the tables with the content they
\* had when the outer transaction began; so does committing the innermost
\* transaction and rolling back its parent from any state.
C4_OuterRollback ==
    /\ (Len(m_txns) >= 2 /\ last.op = "commit" /\ last.err = NoError) =>
           LET r == rollback_transaction(store, m_txns)
           IN  r.err = NoError /\ SameTables(r.st, Top(begun))
    /\ Len(m_txns) >= 3 =>
           LET c == commit_transaction(store, m_txns)
               r == rollback_transaction(c.st, c.txns)
           IN  /\ c.err = NoError /\ r.err = NoError
               /\ SameTables(r.st, begun[Len(begun) - 1])

\* A child that wrote both tables has been committed into a nested transaction.
C4_Witness ==
    /\ last.op = "commit" /\ last.err = NoError /\ last.wrote = TableNames
    /\ Len(m_txns) >= 2

\* C5: in a nested transaction, after any calls of insert, update and remove,
\* rollback_transaction leaves every table and every index with the content it
\* had immediately before begin_transaction.
C5_RollbackRestores ==
    Len(m_txns) >= 2 =>
        LET r == rollback_transaction(store, m_txns)
        IN  /\ r.err = NoError
            /\ r.st.season  = Top(begun).season
            /\ r.st.month   = Top(begun).month
            /\ r.st.iseason = Top(begun).iseason
            /\ r.st.iordnum = Top(begun).iordnum

\* Inside a transaction a remove on the master table has just changed both
\* tables (a cascading or nullifying remove), and the indexes differ from
\* their content at the begin.
C5_Witness ==
    /\ Len(m_txns) >= 2
    /\ last.op = "remove" /\ last.err = NoError /\ last.wrote = TableNames
    /\ store.iseason # Top(begun).iseason

\* C6: a successful commit_transaction of a nested transaction leaves every
\* table with the content the child saw immediately before the commit.
C6_CommitKeeps ==
    Len(m_txns) >= 2 =>
        LET c == commit_transaction(store, m_txns)
        IN  /\ c.err = NoError
            /\ SameTables(c.st, store)
            /\ \A tbl \in TableNames : \A k \in AllKeys(tbl) :
                   /\ exists(c.st, tbl, k) = exists(store, tbl, k)
                   /\ select(c.st, tbl, k) = select(store, tbl, k)

\* A child that wrote table "month" has been committed and a record is there.
C6_Witness ==
    /\ last.op = "commit" /\ last.err = NoError /\ "month" \in last.wrote
    /\ store.month # {}

\* The write of data d under key k derives a key of the foreign-linked index
\* "season" that is not in the master table.
ForeignAbsent(k, d) ==
    /\ fmode # "none"
    /\ season_ix_index(k, d) # DB_DONOTINDEX
    /\ ~exists(store, "season", season_ix_index(k, d))

\* Another record holds the key that d derives in the unique index "ordnum".
UniqueTaken(k, d) ==
    \E e \in store.month : e[1] # k /\ ordnum_ix_index(e[1], e[2]) = ordnum_ix_index(k, d)

\* C7: an insert or update whose key in the foreign-linked index is absent
\* from the master table fails and leaves the tables and indexes unchanged;
\* the error is ForeignKey for an insert of a new key and for an update of a
\* present key, unless the write collides in a unique index; otherwise insert
\* reports AlreadyExists, update NotFound (absent key) or Unknown (collision).
C7_ForeignKeyAbsent ==
    \A p \in AllPuts("month") :
        ForeignAbsent(p[1], p[2]) =>
            LET i    == insert(store, fmode, "month", p[1], p[2])
                u    == update(store, fmode, "month", p[1], p[2])
                have == exists(store, "month", p[1])
                dup  == UniqueTaken(p[1], p[2])
            IN  /\ i.err # NoError /\ i.st = store
                /\ u.err # NoError /\ u.st = store
                /\ i.err = IF have \/ dup THEN BDB_ERROR_EXISTS ELSE BDB_ERROR_FOREIGN_KEY
                /\ u.err = IF ~have THEN BDB_ERROR_NOT_FOUND
                           ELSE IF dup THEN BDB_ERROR_UNKNOWN
                           ELSE BDB_ERROR_FOREIGN_KEY

\* C7 as stated: every such insert and update fails with ForeignKey.
C7_AsStated ==
    \A p \in AllPuts("month") :
        ForeignAbsent(p[1], p[2]) =>
            LET i == insert(store, fmode, "month", p[1], p[2])
                u == update(store, fmode, "month", p[1], p[2])
            IN  /\ i.err = BDB_ERROR_FOREIGN_KEY /\ i.st = store
                /\ u.err = BDB_ERROR_FOREIGN_KEY /\ u.st = store

\* An update of a present record has just failed with ForeignKey.
C7_Witness ==
    /\ last.op = "update" /\ last.err = BDB_ERROR_FOREIGN_KEY /\ last.wrote = {}
    /\ store.month # {}

\* The records of table "month" whose key in index "season" is k.
RefsTo(st, k) == {e \in st.month : season_ix_index(e[1], e[2]) = k}

\* C8: with the foreign key registered with cascade = false, remove(K) of a
\* master key K fails with ForeignKey and changes nothing while an entry of
\* index "season" has key K, and succeeds when no entry has.
C8_NoCascade ==
    fmode = add_foreign_flag(FALSE) =>
        \A k \in SeasonKeys :
            exists(store, "season", k) =>
                LET r == remove(store, fmode, "season", k)
                IN  IF index_exists(store.iseason, k)
                    THEN r.err = BDB_ERROR_FOREIGN_KEY /\ r.st = store
                    ELSE /\ r.err = NoError
                         /\ ~exists(r.st, "season", k)
                         /\ r.st.month = store.month

\* A remove on the master table has just been refused.
C8_Witness ==
    /\ fmode = add_foreign_flag(FALSE)
    /\ last.op = "remove" /\ last.err = BDB_ERROR_FOREIGN_KEY
    /\ \E k \in SeasonKeys : exists(store, "season", k) /\ index_exists(store.iseason, k)

\* C9: with the foreign key registered with cascade = true, a successful
\* remove(K) on the master table deletes exactly the records of "month" whose
\* key in index "season" is K, with their entries in both indexes; the keys
\* they held in the unique index "ordnum" can be inserted again.
C9_Cascade ==
    fmode = add_foreign_flag(TRUE) =>
        \A k \in SeasonKeys :
            LET r    == remove(store, fmode, "season", k)
                refs == RefsTo(store, k)
                pks  == {e[1] : e \in refs}
            IN  r.err = NoError =>
                    /\ r.st.month   = store.month \ refs
                    /\ r.st.iseason = {x \in store.iseason : x[2] \notin pks}
                    /\ r.st.iordnum = {x \in store.iordnum : x[2] \notin pks}
                    /\ ~index_exists(r.st.iseason, k)
                    /\ \A e \in refs :
                           /\ ~exists(r.st, "month", e[1])
                           /\ ~index_exists(r.st.iordnum, ordnum_ix_index(e[1], e[2]))
                           /\ insert(r.st, fmode, "month", e[1],
                                     [season |-> NoSeason, ordnum |-> e[2].ordnum]).err = NoError

\* A remove on the master table has just deleted records of "month" as well,
\* and a record of "month" is left.
C9_Witness ==
    /\ fmode = add_foreign_flag(TRUE)
    /\ last.op = "remove" /\ last.err = NoError /\ last.wrote = TableNames
    /\ store.month # {}

C11_InsertExisting ==
    /\ \A tbl \in TableNames : \A p \in AllPuts(tbl) :
           exists(store, tbl, p[1]) =>
               LET i == insert(store, fmode, tbl, p[1], p[2])
               IN  /\ i.err = BDB_ERROR_EXISTS
                   /\ i.st = store
                   /\ select(i.st, tbl, p[1]) = select(store, tbl, p[1])
    /\ \A tbl \in TableNames : \A e1, e2 \in Table(store, tbl) :
           e1[1] = e2[1] => e1 = e2

\* An insert has just been refused by the engine for its primary key.
C11_Witness ==
    /\ last.op = "insert" /\ last.err = BDB_ERROR_EXISTS /\ last.res = DB_KEYEXIST
    /\ last.wrote = {}
    /\ store.month # {}

\* C12: insert(K, D) whose key in the unique index "ordnum" is held by a
\* record with another primary key fails with AlreadyExists and leaves the
\* table and both indexes unchanged; a K that was not in the table is not in
\* it afterwards and no index has an entry for it.
C12_UniqueCollision ==
    \A p \in AllPuts("month") :
        UniqueTaken(p[1], p[2]) =>
            LET i == insert(store, fmode, "month", p[1], p[2])
            IN  /\ i.err = BDB_ERROR_EXISTS
                /\ i.st = store
                /\ ~exists(store, "month", p[1]) =>
                       /\ ~exists(i.st, "month", p[1])
                       /\ \A x \in i.st.iseason : x[2] # p[1]
                       /\ \A x \in i.st.iordnum : x[2] # p[1]

\* An insert of a new primary key has just been refused for its key in the
\* unique index.
C12_Witness ==
    /\ last.op = "insert" /\ last.err = BDB_ERROR_EXISTS /\ last.res = EINVAL
    /\ last.wrote = {}
    /\ Cardinality(store.month) = 1
    /\ store.iseason # {}

\* Some record other than the one with key k derives the key sk in index
\* "season" (ok in index "ordnum").
OtherYieldsSeason(k, sk) ==
    \E e \in store.month : e[1] # k /\ season_ix_index(e[1], e[2]) = sk
OtherYieldsOrdnum(k, ok) ==
    \E e \in store.month : e[1] # k /\ ordnum_ix_index(e[1], e[2]) = ok

\* C13: a successful update(K, D') of a record with data D takes the entries
\* derived from (K, D) out of both indexes and puts the entries derived from
\* (K, D') in: an index probe for the new derived key is true, and a probe
\* for an old derived key that differs from the new one and that no other
\* record yields is false.
C13_UpdateReindexes ==
    \A p \in AllPuts("month") :
        exists(store, "month", p[1]) =>
            LET u   == update(store, fmode, "month", p[1], p[2])
                old == Lookup(store.month, p[1])
                so  == season_ix_index(p[1], old)
                sn  == season_ix_index(p[1], p[2])
                oo  == ordnum_ix_index(p[1], old)
                on  == ordnum_ix_index(p[1], p[2])
            IN  u.err = NoError =>
                    /\ u.st.iseason =
                           (store.iseason \ {<<so, p[1]>>}) \cup
                           (IF sn = DB_DONOTINDEX THEN {} ELSE {<<sn, p[1]>>})
                    /\ u.st.iordnum = (store.iordnum \ {<<oo, p[1]>>}) \cup {<<on, p[1]>>}
                    /\ sn # DB_DONOTINDEX => index_exists(u.st.iseason, sn)
                    /\ index_exists(u.st.iordnum, on)
                    /\ (so # sn /\ ~OtherYieldsSeason(p[1], so)) =>
                           ~index_exists(u.st.iseason, so)
                    /\ (oo # on /\ ~OtherYieldsOrdnum(p[1], oo)) =>
                           ~index_exists(u.st.iordnum, oo)

\* An update has just changed a record, and index "season" has entries.
C13_Witness ==
    /\ last.op = "update" /\ last.err = NoError /\ "month" \in last.wrote
    /\ store.iseason # {}
    /\ Cardinality(store.iordnum) = 1

\* C14: select, update and remove of a key that is not in the table fail
\* with NotFound and leave the tables and indexes unchanged; update creates
\* no record.
C14_AbsentKey ==
    \A tbl \in TableNames : \A k \in AllKeys(tbl) :
        ~exists(store, tbl, k) =>
            /\ select(store, tbl, k).err = BDB_ERROR_NOT_FOUND
            /\ LET r == remove(store, fmode, tbl, k)
               IN  r.err = BDB_ERROR_NOT_FOUND /\ r.st = store
            /\ \A p \in AllPuts(tbl) :
                   p[1] = k =>
                       LET u == update(store, fmode, tbl, k, p[2])
                       IN  /\ u.err = BDB_ERROR_NOT_FOUND
                           /\ u.st = store
                           /\ ~exists(u.st, tbl, k)

\* An update of an absent key has just failed while other records exist.
C14_Witness ==
    /\ last.op = "update" /\ last.err = BDB_ERROR_NOT_FOUND /\ last.wrote = {}
    /\ Cardinality(store.month) = 1
    /\ Cardinality(store.season) = 1

C16_StackShape ==
    /\ Len(m_txns) >= 1
    /\ m_txns[1] = TxnBegin(EmptyStore, NULL)
    /\ \A i \in 2..Len(m_txns) : m_txns[i].parent = <<m_txns[i - 1]>>
    /\ LET b == begin_transaction(store, m_txns)
       IN  /\ b.err = NoError
           /\ Len(b.txns) = Len(m_txns) + 1
           /\ SubSeq(b.txns, 1, Len(m_txns)) = m_txns
           /\ Top(b.txns).parent = <<Top(m_txns)>>
    /\ LET c == commit_transaction(store, m_txns)
           r == rollback_transaction(store, m_txns)
       IN  /\ c.err = NoError => c.txns = SubSeq(m_txns, 1, Len(m_txns) - 1)
           /\ r.err = NoError => r.txns = SubSeq(m_txns, 1, Len(m_txns) - 1)

\* A transaction has just been begun inside another nested transaction.
C16_Witness ==
    /\ last.op = "begin" /\ last.err = NoError
    /\ Len(m_txns) = 3
    /\ m_txns[3].parent = <<m_txns[2]>>
    /\ m_txns[2].undo # EmptyStore

\* C17: with only the top-level transaction on the stack, commit_transaction
\* and rollback_transaction fail with NotFound, leave the stack and the
\* store as they are and call neither commit nor abort of the engine.
C17_TopLevelKept ==
    Len(m_txns) = 1 =>
        LET c == commit_transaction(store, m_txns)
            r == rollback_transaction(store, m_txns)
        IN  /\ c.err = BDB_ERROR_NOT_FOUND /\ r.err = BDB_ERROR_NOT_FOUND
            /\ c.txns = m_txns /\ r.txns = m_txns
            /\ c.st = store /\ r.st = store
            /\ c.call = <<>> /\ r.call = <<>>

\* A commit has just failed on the top-level transaction alone, with
\* records in the store.
C17_Witness ==
    /\ last.op = "commit" /\ last.err = BDB_ERROR_NOT_FOUND
    /\ Len(m_txns) = 1
    /\ store.month # {}

\* The stack that a call leaves when it runs alone.
Alone(op, txns) ==
    CASE op = "begin"    -> begin_transaction(store, txns).txns
      [] op = "commit"   -> commit_transaction(store, txns).txns
      [] op = "rollback" -> rollback_transaction(store, txns).txns

\* The stacks that the calls of the threads leave in their serial orders.
RECURSIVE SerialStacks(_, _)
SerialStacks(ts, txns) ==
    IF ts = {} THEN {txns}
    ELSE UNION {SerialStacks(ts \ {t}, Alone(threads[t].op, txns)) : t \in ts}

\* When all calls have returned, the stack is the one that some serial
\* order of the calls leaves.
StackIsSerial ==
    (\A t \in Threads : threads[t].pc = "done") =>
        m_txns \in SerialStacks(Threads, threads[CHOOSE t \in Threads : TRUE].start)

\* No call has read or popped an empty stack or ended a transaction twice.
AllDefined == \A t \in Threads : threads[t].pc # "undefined"

\* C18: no two threads are inside begin_transaction, commit_transaction or
\* rollback_transaction at the same time, and when all calls have returned
\* the stack is the one that some serial order of the calls leaves.
C18_MutuallyExclusive ==
    /\ \A t, u \in Threads : t # u => ~(Inside(t) /\ Inside(u))
    /\ StackIsSerial

\* C19: whatever calls are made, with begin_transaction, commit_transaction
\* and rollback_transaction around them, every value returned by id() is
\* strictly greater than every value returned before for the same sequence.
C19_StrictlyGreater ==
    \A n \in SeqNames : \A i, j \in DOMAIN ids[n] : i < j => ids[n][i] < ids[n][j]

C21_Durable ==
    \A n \in SeqNames :
        SeqHas(store, n) => \A i \in DOMAIN ids[n] : id(store, n).id > ids[n][i]

----------------------------------------------------------------------------
(* Closing, opening, adding tables and indexes *)

\* C22: the destructor aborts the nested transactions, the most recent
\* first, then closes the sequences and the tables (each table its indexes
\* before itself), then commits the top-level transaction and closes the
\* environment last; what the tables hold afterwards is what the top-level
\* transaction saw, without the writes of the transactions that were open.
C22_CloseOrder ==
    LET calls == close_calls(m_txns, m_sequences, m_tables)
        n     == Len(calls)
        nest  == Len(m_txns) - 1
        kept  == close(store, m_txns)
        base  == IF nest > 0 THEN begun[2] ELSE store
        At(c) == {i \in 1..n : calls[i] = c}
    IN  /\ \A i \in 1..nest :
              calls[i] = [fn |-> "DB_TXN->abort", name |-> "", level |-> Len(m_txns) - i + 1]
        /\ \A i \in (nest + 1)..n : calls[i].fn # "DB_TXN->abort"
        /\ calls[n].fn = "DB_ENV->close"
        /\ calls[n - 1] = [fn |-> "DB_TXN->commit", name |-> "", level |-> 1]
        /\ \A i \in 1..(n - 2) : calls[i].fn \notin {"DB_TXN->commit", "DB_ENV->close"}
        /\ \A i \in DOMAIN m_sequences :
              At([fn |-> "DB_SEQUENCE->close", name |-> m_sequences[i], level |-> 0]) # {}
        /\ \A j \in DOMAIN m_tables :
              \E i \in At([fn |-> "DB->close", name |-> TableFile(m_tables[j].name), level |-> 0]) :
                  \A k \in DOMAIN m_tables[j].m_indexes :
                      \E h \in At([fn |-> "DB->close",
                                   name |-> IndexFile(m_tables[j].m_indexes[k]), level |-> 0]) :
                          h < i
        /\ \A tbl \in TableNames : Table(kept, tbl) = Table(base, tbl)

\* The home was reopened while a nested transaction with writes was open:
\* the writes of the top-level transaction are there, those are not.
C22_Witness ==
    /\ last.op = "open"
    /\ last.wrote # {}
    /\ store.month # {}

\* C23: opening a database, a table or a sequence without create fails with
\* NotFound if it is not there, and with create fails with AlreadyExists if
\* it is there; a failed add_table or add_sequence leaves the open tables
\* and sequences and the content of the home as they were.
C23_OpenErrors ==
    /\ \A home \in {NoHome, close(store, m_txns)} :
          /\ SeqFile \notin home.files => database(home, FALSE).err = BDB_ERROR_NOT_FOUND
          /\ SeqFile \in home.files => database(home, TRUE).err = BDB_ERROR_EXISTS
          /\ \A create \in BOOLEAN :
                database(home, create).err # NoError =>
                    \A tbl \in TableNames : Table(database(home, create).st, tbl) = Table(home, tbl)
    /\ \A name \in TableNames \cup {OtherTable} : \A create \in BOOLEAN :
          LET r == add_table(store, m_tables, name, create)
          IN  /\ ~create /\ TableFile(name) \notin store.files => r.err = BDB_ERROR_NOT_FOUND
              /\ create /\ TableFile(name) \in store.files => r.err = BDB_ERROR_EXISTS
              /\ r.err # NoError => r.tables = m_tables /\ r.st = store
    /\ \A st \in {store} \cup {add_sequence(store, m_sequences, made, TRUE).st : made \in SeqNames} :
          \A n \in SeqNames : \A create \in BOOLEAN :
              LET r == add_sequence(st, m_sequences, n, create)
              IN  /\ ~create /\ ~SeqHas(st, n) => r.err = BDB_ERROR_NOT_FOUND
                  /\ create /\ SeqHas(st, n) => r.err = BDB_ERROR_EXISTS
                  /\ r.err # NoError => r.seqs = m_sequences /\ r.st = st

\* add_table with create has failed on a table that is there and holds records.
C23_Witness ==
    /\ last.op = "add_table"
    /\ last.err = BDB_ERROR_EXISTS
    /\ store.month # {}
    /\ m_tables # <<>>

\* C24: add_index of an index that was not there, on a table that holds
\* records: when it returns, the index has an entry for every record of the
\* table for which the callback of the index gives a key.
C24_Backfill ==
    \A j \in DOMAIN m_tables : \A name \in associated :
        LET r == add_index(store, m_tables, j, name)
        IN  m_tables[j].name = "month" /\ IndexFile(name) \notin store.files /\ r.err = NoError =>
                /\ r.tables[j].m_indexes = Append(m_tables[j].m_indexes, name)
                /\ name = "season" =>
                      \A e \in store.month :
                          season_ix_index(e[1], e[2]) # DB_DONOTINDEX =>
                              <<season_ix_index(e[1], e[2]), e[1]>> \in r.st.iseason
                /\ name = "ordnum" =>
                      \A e \in store.month : <<ordnum_ix_index(e[1], e[2]), e[1]>> \in r.st.iordnum

\* Index "season" was added to a table with a record that it indexes and a
\* record that it skips, and add_index has filled it.
C24_Witness ==
    /\ last.op = "add_index"
    /\ last.err = NoError
    /\ last.wrote = {"season"}
    /\ \E e \in store.month : season_ix_index(e[1], e[2]) = DB_DONOTINDEX
    /\ \E e \in store.month : season_ix_index(e[1], e[2]) # DB_DONOTINDEX

----------------------------------------------------------------------------
(* Recordsets *)

\* The records that up to n calls of fetch return before the first false.
RECURSIVE Drain(_, _, _)
Drain(st, rs, n) ==
    IF n = 0 THEN <<>>
    ELSE LET f == fetch(st, rs)
         IN  IF f.ok THEN <<f.rec>> \o Drain(st, f.rs, n - 1) ELSE <<>>

\* The key that the callback of an index derives from a record, and the
\* records of table "month" from which it derives a given key.
IxKey(idx, e) ==
    IF idx = "season" THEN season_ix_index(e[1], e[2]) ELSE ordnum_ix_index(e[1], e[2])
Indexed(st, idx) ==
    IF idx = "season" THEN {e \in st.month : season_ix_index(e[1], e[2]) # DB_DONOTINDEX}
    ELSE st.month
WithKey(st, idx, key) == {e \in Indexed(st, idx) : IxKey(idx, e) = key}

\* C25: a recordset over a table, new or rewound, fetched with no write in
\* between, returns every record of the table once, in ascending order of
\* the comparator of the table, and then false.
C25_TableOrder ==
    /\ \A tbl \in TableNames :
          LET n == Cardinality(Table(store, tbl))
              d == Drain(store, recordset_table(tbl), n + 1)
          IN  /\ Len(d) = n
              /\ {d[i] : i \in 1..n} = Table(store, tbl)
              /\ \A i \in 1..n : \A j \in 1..n :
                    i < j => bt_compare(TableFile(tbl), d[i][1], d[j][1]) < 0
    /\ \A h \in DOMAIN recordsets :
          recordsets[h].m_type = BDB_RS_TABLE =>
              LET all == Content(store, recordsets[h].m_cursor.db)
                  d   == Drain(store, rewind(recordsets[h]).rs, Cardinality(all) + 1)
              IN  Len(d) = Cardinality(all) /\ {d[i] : i \in DOMAIN d} = all

\* Four calls of fetch on a recordset over table "month" have returned its
\* three records and then false.
C25_Witness ==
    /\ "a" \in DOMAIN recordsets
    /\ recordsets["a"].m_type = BDB_RS_TABLE
    /\ recordsets["a"].m_cursor.db = TableFile("month")
    /\ Len(fetched["a"]) = 4
    /\ \A i \in 1..3 : fetched["a"][i].ok
    /\ ~fetched["a"][4].ok
    /\ {fetched["a"][i].rec : i \in 1..3} = store.month

\* C26: a recordset over an index returns one record of the table per entry
\* of the index, in ascending order of the keys of the index, and the
\* records with equal keys in the order of the comparator of the table.
C26_IndexOrder ==
    \A idx \in associated :
        LET n == Cardinality(Indexed(store, idx))
            d == Drain(store, recordset_index(idx), n + 1)
        IN  /\ Len(d) = n
            /\ {d[i] : i \in 1..n} = Indexed(store, idx)
            /\ \A i \in 1..n : \A j \in 1..n :
                  i < j =>
                      LET c == bt_compare(IndexFile(idx), IxKey(idx, d[i]), IxKey(idx, d[j]))
                      IN  c < 0 \/ (c = 0 /\ month_compare(d[i][1], d[j][1]) < 0)

\* A recordset over index "season" has returned the two months of the first
\* season in the order of their keys, then the month of the other season,
\* then false.
C26_Witness ==
    /\ "a" \in DOMAIN recordsets
    /\ recordsets["a"].m_type = BDB_RS_DUPLICATES
    /\ recordsets["a"].m_cursor.db = IndexFile("season")
    /\ Len(fetched["a"]) = 4
    /\ fetched["a"][1].ok /\ fetched["a"][1].rec[1] = "m2"
    /\ fetched["a"][2].ok /\ fetched["a"][2].rec[1] = "m3"
    /\ fetched["a"][3].ok /\ fetched["a"][3].rec[1] = "m1"
    /\ ~fetched["a"][4].ok

\* C27: a recordset over an index and a key returns the records of the
\* table from which the index derives that key, each once, in the order of
\* the comparator of the table; if there is none the first fetch returns
\* false and throws nothing.
C27_KeyFilter ==
    \A idx \in associated : \A key \in RsKeys(idx) :
        LET want == WithKey(store, idx, key)
            n    == Cardinality(want)
            d    == Drain(store, recordset_key(idx, key), n + 1)
            f    == fetch(store, recordset_key(idx, key))
        IN  /\ Len(d) = n
            /\ {d[i] : i \in 1..n} = want
            /\ \A i \in 1..n : \A j \in 1..n :
                  i < j => month_compare(d[i][1], d[j][1]) < 0
            /\ want = {} => ~f.ok /\ f.err = NoError

\* A recordset over index "season" and the key of the season with two
\* months has returned the two months and then false.
C27_Witness ==
    /\ "a" \in DOMAIN recordsets
    /\ recordsets["a"].m_type = BDB_RS_UNIQUE
    /\ recordsets["a"].m_cursor.db = IndexFile("season")
    /\ Len(fetched["a"]) = 3
    /\ fetched["a"][1].ok /\ fetched["a"][1].rec[1] = "m2"
    /\ fetched["a"][2].ok /\ fetched["a"][2].rec[1] = "m3"
    /\ ~fetched["a"][3].ok

\* The index that a recordset is over, and the records its key selects.
IndexOf(rs)   == CHOOSE idx \in associated : IndexFile(idx) = rs.m_cursor.db
Filtered(st, rs) == WithKey(st, IndexOf(rs), rs.m_key[1])

\* C28: a join over recordsets with a key, all over indexes of table
\* "month", is made without an error and returns the records that every
\* one of them selects, each once, in the order of the keys of the table,
\* and then false; if one of them selects nothing every fetch returns false.
C28_Join ==
    \A list \in JoinLists :
        (list # <<>> /\ \A i \in DOMAIN list : recordsets[list[i]].m_type = BDB_RS_UNIQUE) =>
            LET r    == recordset_join(store, recordsets, "month", list)
                want == {e \in store.month :
                            \A i \in DOMAIN list : e \in Filtered(store, recordsets[list[i]])}
                n    == Cardinality(want)
                d    == Drain(store, r.rs, n + 1)
            IN  /\ r.err = NoError
                /\ Len(d) = n
                /\ {d[i] : i \in 1..n} = want
                /\ \A i \in 1..n : \A j \in 1..n :
                      i < j => month_compare(d[i][1], d[j][1]) < 0
                /\ fetch(store, r.rs).err = NoError
                /\ (\E i \in DOMAIN list : Filtered(store, recordsets[list[i]]) = {}) =>
                      ~fetch(store, r.rs).ok

\* The join of the first season and the first ordinal number has returned
\* the one month that both select, and then false.
C28_Witness ==
    /\ {"a", "b", "j"} \subseteq DOMAIN recordsets
    /\ Len(recordsets["j"].m_cursor.curslist) = 2
    /\ recordsets["j"].m_cursor.db = TableFile("month")
    /\ Len(fetched["j"]) = 2
    /\ fetched["j"][1].ok /\ fetched["j"][1].rec[1] = "m2"
    /\ ~fetched["j"][2].ok

\* C29: the constructor of a join throws Unknown if a recordset of the list
\* has no key, or if the recordsets of the list are not all over indexes of
\* the table given.
C29_JoinPrecondition ==
    \A tbl \in TableNames : \A list \in JoinLists :
        LET keyless == \E i \in DOMAIN list : recordsets[list[i]].m_type # BDB_RS_UNIQUE
            foreign == \E i \in DOMAIN list :
                          recordsets[list[i]].m_cursor.db \notin
                              {IndexFile(x) : x \in IF tbl = "month" THEN associated ELSE {}}
        IN  keyless \/ foreign =>
                recordset_join(store, recordsets, tbl, list).err = BDB_ERROR_UNKNOWN

\* The part of C29 that the constructor checks itself: a recordset without
\* a key in the list.
JoinNeedsKeys ==
    \A tbl \in TableNames : \A list \in JoinLists :
        (\E i \in DOMAIN list : recordsets[list[i]].m_type # BDB_RS_UNIQUE) =>
            recordset_join(store, recordsets, tbl, list).err = BDB_ERROR_UNKNOWN

\* C30: after a fetch that has returned false, no later fetch on the same
\* recordset returns true unless the recordset was rewound in between.
C30_StaysFalse ==
    \A h \in DOMAIN fetched :
        \A i \in DOMAIN fetched[h] : \A j \in DOMAIN fetched[h] :
            i < j /\ ~fetched[h][i].ok => ~fetched[h][j].ok

\* With no write and no join made in between, a fetch after a fetch that
\* has returned false returns false and leaves the recordset as it is.
FalseIsKept ==
    \A h \in DOMAIN recordsets :
        LET f == fetch(store, recordsets[h])
        IN  ~f.ok => ~fetch(store, f.rs).ok /\ f.rs = recordsets[h]

\* A newly constructed recordset over the source of a recordset.
Fresh(rs) ==
    CASE rs.m_type = BDB_RS_TABLE ->
            recordset_table(CHOOSE tbl \in TableNames : TableFile(tbl) = rs.m_cursor.db)
      [] rs.m_type = BDB_RS_DUPLICATES -> recordset_index(IndexOf(rs))
      [] rs.m_type = BDB_RS_UNIQUE -> recordset_key(IndexOf(rs), rs.m_key[1])

\* C31: rewind on a recordset over a table, an index, or an index and a
\* key, after any calls of fetch, succeeds, and the calls of fetch after it
\* return the records that a new recordset over the same source returns,
\* from the first record on.
C31_RewindRestarts ==
    \A h \in DOMAIN recordsets :
        recordsets[h].m_type # BDB_RS_JOIN =>
            LET r == rewind(recordsets[h])
                n == Cardinality(store.month) + Cardinality(store.season) + 1
            IN  /\ r.err = NoError
                /\ Drain(store, r.rs, n) = Drain(store, Fresh(recordsets[h]), n)
                /\ fetch(store, r.rs).ok = fetch(store, Fresh(recordsets[h])).ok
                /\ fetch(store, r.rs).rec = fetch(store, Fresh(recordsets[h])).rec

\* A recordset that had been fetched from, over a table that holds more
\* than one record, has been rewound.
C31_Witness ==
    /\ last.op = "rewind"
    /\ last.err = NoError
    /\ "a" \in DOMAIN recordsets
    /\ recordsets["a"].m_cursor.pos # <<>>
    /\ ~recordsets["a"].m_isset
    /\ Cardinality(store.month) > 1

\* C32: rewind on a join fails with Unknown and leaves the join as it is,
\* so the calls of fetch after it go on where they were.
C32_JoinRewind ==
    \A h \in DOMAIN recordsets :
        recordsets[h].m_type = BDB_RS_JOIN =>
            LET r == rewind(recordsets[h])
            IN  /\ r.err = BDB_ERROR_UNKNOWN
                /\ r.rs = recordsets[h]
                /\ fetch(store, r.rs) = fetch(store, recordsets[h])

\* rewind has failed on a join that had returned its first record and has
\* another to return.
C32_Witness ==
    /\ last.op = "rewind"
    /\ last.err = BDB_ERROR_UNKNOWN
    /\ "j" \in DOMAIN recordsets
    /\ Len(fetched["j"]) = 1
    /\ fetched["j"][1].ok
    /\ fetch(store, recordsets["j"]).ok

\* C34: a join constructor that throws Unknown leaves every recordset of
\* the caller as it was.
C34_FailedJoinKeeps ==
    \A tbl \in OpenTables : \A list \in JoinLists :
        LET r == recordset_join(store, recordsets, tbl, list)
        IN  r.err # NoError => r.rss = recordsets

\* What does hold: a join constructor that throws leaves the recordsets
\* from the first one without a key on as they were.
FailedJoinKeepsRest ==
    \A tbl \in OpenTables : \A list \in JoinLists :
        LET r == recordset_join(store, recordsets, tbl, list)
        IN  r.err # NoError /\ list # <<>> =>
                \E i \in DOMAIN list :
                    /\ recordsets[list[i]].m_key = NULL
                    /\ \A x \in DOMAIN recordsets :
                          x \notin {list[k] : k \in 1..(i - 1)} => r.rss[x] = recordsets[x]

\* The entries that a key selects, first the least key of the table.
First(F)  == CHOOSE e \in F : \A o \in F : month_compare(e[1], o[1]) <= 0

\* C35: a join made without an error leaves every recordset of its list
\* whose key selects an entry on the first such entry and marked as set:
\* its next fetch returns the second entry of the key, or false if there is
\* one entry only, and after rewind the first entry. What the join returns
\* does not depend on how far the recordsets had been fetched.
C35_JoinPositions ==
    \A list \in JoinLists :
        (list # <<>> /\ \A i \in DOMAIN list : recordsets[list[i]].m_type = BDB_RS_UNIQUE) =>
            \A r \in {recordset_join(store, recordsets, "month", list)} :
                /\ r.err = NoError
                /\ \A i \in DOMAIN list :
                      \A F \in {Filtered(store, recordsets[list[i]])} :
                          F # {} =>
                              \A next \in {fetch(store, r.rss[list[i]])} :
                              \A back \in {fetch(store, rewind(r.rss[list[i]]).rs)} :
                                  /\ r.rss[list[i]].m_isset
                                  /\ next.ok = (Cardinality(F) > 1)
                                  /\ next.ok => next.rec = First(F \ {First(F)})
                                  /\ back.ok /\ back.rec = First(F)
                /\ \A fresh \in {[x \in DOMAIN recordsets |->
                                     IF recordsets[x].m_type = BDB_RS_UNIQUE
                                     THEN Fresh(recordsets[x]) ELSE recordsets[x]]} :
                      Drain(store, r.rs, Cardinality(store.month) + 1) =
                          Drain(store, recordset_join(store, fresh, "month", list).rs,
                                Cardinality(store.month) + 1)

\* A recordset over season "s1", which has two months, was in the list of a
\* join; the first fetch on it since it was made has returned the second
\* of the months.
C35_Witness ==
    /\ {"a", "j"} \subseteq DOMAIN recordsets
    /\ recordsets["a"].m_type = BDB_RS_UNIQUE
    /\ recordsets["a"].m_cursor.db = IndexFile("season")
    /\ recordsets["j"].m_cursor.curslist # <<>>
    /\ Len(fetched["a"]) = 1
    /\ fetched["a"][1].ok
    /\ fetched["a"][1].rec[1] = "m3"

\* C37: update(K, D) of a record that is in the table, whose key in the
\* unique index "ordnum" is held by a record with another primary key,
\* fails with Unknown, where insert reports AlreadyExists, and leaves the
\* record of K and the entries of both indexes as they were.
C37_UpdateCollision ==
    \A p \in AllPuts("month") :
        (exists(store, "month", p[1]) /\ UniqueTaken(p[1], p[2])) =>
            LET u == update(store, fmode, "month", p[1], p[2])
            IN  /\ u.err = BDB_ERROR_UNKNOWN
                /\ u.res = EINVAL
                /\ Lookup(u.st.month, p[1]) = Lookup(store.month, p[1])
                /\ u.st.iseason = store.iseason
                /\ u.st.iordnum = store.iordnum
                /\ u.st = store
                /\ insert(store, fmode, "month", p[1], p[2]).err = BDB_ERROR_EXISTS

\* An update has just been refused for its key in the unique index; both
\* records are in the table.
C37_Witness ==
    /\ last.op = "update" /\ last.err = BDB_ERROR_UNKNOWN /\ last.res = EINVAL
    /\ last.wrote = {}
    /\ Cardinality(store.month) = 2
    /\ Cardinality(store.iordnum) = 2

\* The result c of a commit or rollback in the current state has thrown
\* Unknown with the stack one shorter, and a write after it is undone by a
\* rollback of the parent, which restores what the parent began with.
Popped(c) ==
    /\ c.err = BDB_ERROR_UNKNOWN
    /\ Len(c.txns) = Len(m_txns) - 1
    /\ c.txns = Pop(m_txns)
    /\ Len(c.txns) > 1 =>
          \A p \in PutsOf(TxnInputs, "month") :
              SameTables(rollback_transaction(insert(c.st, fmode, "month", p[1], p[2]).st,
                                              c.txns).st,
                         begun[Len(c.txns)])

\* C36: commit_transaction and rollback_transaction of a nested
\* transaction whose DB_TXN->commit or DB_TXN->abort fails throw Unknown
\* with the transaction already off the stack: the stack is one shorter and
\* later writes belong to the parent.
C36_PopsFirst ==
    Len(m_txns) > 1 =>
        /\ \A r \in TxnCommitResults(store, Top(m_txns)) :
              r.ret # DB_OK => Popped(commit_on(store, m_txns, r))
        /\ \A r \in TxnAbortResults(store, Top(m_txns)) :
              r.ret # DB_OK => Popped(rollback_on(store, m_txns, r))

\* The commit of a transaction nested in a nested transaction has failed;
\* its parent is on top of the stack and table "month" holds a record.
C36_Witness ==
    /\ last.op = "commit" /\ last.err = BDB_ERROR_UNKNOWN /\ last.res = DB_RUNRECOVERY
    /\ Len(m_txns) = 2
    /\ Len(begun) = 2
    /\ store.month # {}

C39_SessionOnly ==
    /\ last.op = "open" => fmode = "none"
    /\ (fmode = "none" /\ AllOpen) =>
          /\ \A k \in KeysOf(LifeInputs, "season") :
                exists(store, "season", k) =>
                    LET r == remove(store, fmode, "season", k)
                    IN  /\ r.err = NoError
                        /\ ~exists(r.st, "season", k)
                        /\ r.st.month = store.month
          /\ \A p \in PutsOf(LifeInputs, "month") :
                (~exists(store, "month", p[1]) /\ ~UniqueTaken(p[1], p[2])) =>
                    insert(store, fmode, "month", p[1], p[2]).err = NoError
          /\ \A k \in KeysOf(LifeInputs, "season") :
                (exists(store, "season", k) /\ RefsTo(store, k) # {}) =>
                    /\ LET r == remove(store, add_foreign_flag(FALSE), "season", k)
                       IN  r.err = BDB_ERROR_FOREIGN_KEY /\ r.st = store
                    /\ LET r == remove(store, add_foreign_flag(TRUE), "season", k)
                       IN  /\ r.err = NoError
                           /\ ~exists(r.st, "season", k)
                           /\ r.st.month = store.month \ RefsTo(store, k)
                    /\ LET r == remove(store, add_foreign_nullify, "season", k)
                       IN  /\ r.err = NoError
                           /\ ~exists(r.st, "season", k)
                           /\ RefsTo(r.st, k) = {}
                           /\ {e[1] : e \in r.st.month} = {e[1] : e \in store.month}

\* The session before this one had the foreign key with cascade = true; in
\* this one add_foreign was called with cascade = false, and a remove of a
\* master key that a record refers to has been refused.
C39_Witness ==
    /\ fprev = add_foreign_flag(TRUE)
    /\ fmode = add_foreign_flag(FALSE)
    /\ last.op = "remove" /\ last.err = BDB_ERROR_FOREIGN_KEY
    /\ store.month # {}

\* C40: the threads share the transaction on top of the stack. Whichever
\* thread began it and whichever threads wrote since, a
\* rollback_transaction leaves the tables as they were when it began and a
\* commit_transaction leaves them as they are.
C40_SharedTransaction ==
    /\ Len(threads.open) = Len(m_txns) - 1
    /\ Len(m_txns) >= 2 =>
          /\ rollback_transaction(store, m_txns).err = NoError
          /\ SameTables(rollback_transaction(store, m_txns).st, Top(begun))
          /\ commit_transaction(store, m_txns).err = NoError
          /\ SameTables(commit_transaction(store, m_txns).st, store)
          /\ Top(m_txns).undo = Top(begun)

\* Thread t2 has rolled back a transaction that thread t1 began and in
\* which only t1 wrote, and the rollback has changed table "month".
C40_Witness ==
    /\ last.op = "rollback" /\ last.err = NoError /\ "month" \in last.wrote
    /\ threads.ended.caller = "t2"
    /\ threads.ended.by = "t1"
    /\ threads.ended.writers = {"t1"}

====
